---- MODULE Spec2Model ----
(***************************************************************************)
(* gramgraph: the four-stage plotting pipeline                             *)
(*   resolve_plot_aesthetics -> apply_transformations -> build_scales      *)
(*   -> compile_geometry                                                   *)
(* modelled as a state machine whose initial states are the (plot spec,    *)
(* table) inputs and whose actions are the four stages.                    *)
(*                                                                         *)
(* Conventions                                                             *)
(*  - A Rust String is a sequence of byte codes (<<65>> is "A"); String's  *)
(*    Ord is the byte-wise lexicographic order StrLt.  Colour and shape    *)
(*    names, which the pipeline only copies and compares for equality,     *)
(*    are TLA+ strings.                                                    *)
(*  - Option<T> is a sequence of length 0 (None) or 1 (Some(v)).           *)
(*  - An f64 is an exact rational [n, d] in lowest terms, d > 0; d = 0     *)
(*    encodes +inf (n = 1), -inf (n = -1) and NaN (n = 0).  Rounding of    *)
(*    binary floating point is not modelled.                               *)
(*  - A HashMap is a function on its key set; every place the code         *)
(*    iterates a HashMap it sorts the keys first, so no iteration order    *)
(*    is observable.                                                       *)
(***************************************************************************)
EXTENDS Integers, Sequences, FiniteSets, TLC

(***************************************************************************)
(* Option<T>                                                               *)
(***************************************************************************)
None == <<>>
Some(v) == <<v>>
IsSome(o) == Len(o) = 1
IsNone(o) == Len(o) = 0
Unwrap(o) == o[1]
\* Option::or / or_else
OrElse(a, b) == IF IsSome(a) THEN a ELSE b

(***************************************************************************)
(* f64 as extended rationals                                               *)
(***************************************************************************)
Abs(i) == IF i < 0 THEN -i ELSE i

RECURSIVE GCD(_, _)
GCD(a, b) == IF b = 0 THEN a ELSE GCD(b, a % b)

Sign(i) == IF i > 0 THEN 1 ELSE IF i < 0 THEN -1 ELSE 0

\* n/d in lowest terms with a positive denominator; d = 0 gives inf or NaN
Rat(n, d) ==
    IF d = 0 THEN [n |-> Sign(n), d |-> 0]
    ELSE LET g == GCD(Abs(n), Abs(d))
             s == Sign(d)
         IN  [n |-> (s * n) \div g, d |-> (s * d) \div g]

R(i) == [n |-> i, d |-> 1]
INFINITY == [n |-> 1, d |-> 0]
NEG_INFINITY == [n |-> -1, d |-> 0]
NaN == [n |-> 0, d |-> 0]
IsNaN(a) == a.n = 0 /\ a.d = 0
IsFinite(a) == a.d # 0

RLt(a, b) ==
    IF IsNaN(a) \/ IsNaN(b) THEN FALSE
    ELSE IF a.d = 0 /\ b.d = 0 THEN a.n < b.n
    ELSE a.n * b.d < b.n * a.d
RGt(a, b) == RLt(b, a)
RLe(a, b) == ~IsNaN(a) /\ ~IsNaN(b) /\ ~RLt(b, a)
\* f64 == : NaN is equal to nothing
REq(a, b) == ~IsNaN(a) /\ ~IsNaN(b) /\ a = b

RNeg(a) == [n |-> -a.n, d |-> a.d]
RAdd(a, b) ==
    IF IsNaN(a) \/ IsNaN(b) THEN NaN
    ELSE IF a.d = 0 /\ b.d = 0 THEN (IF a.n = b.n THEN a ELSE NaN)
    ELSE IF a.d = 0 THEN a
    ELSE IF b.d = 0 THEN b
    ELSE Rat(a.n * b.d + b.n * a.d, a.d * b.d)
RSub(a, b) == RAdd(a, RNeg(b))
RMul(a, b) ==
    IF IsNaN(a) \/ IsNaN(b) THEN NaN
    ELSE IF a.d = 0 \/ b.d = 0 THEN Rat(Sign(a.n) * Sign(b.n), 0)
    ELSE Rat(a.n * b.n, a.d * b.d)
\* IEEE division: x/0 is an infinity, 0/0 is NaN
RDiv(a, b) ==
    IF IsNaN(a) \/ IsNaN(b) THEN NaN
    ELSE IF a.d = 0 /\ b.d = 0 THEN NaN
    ELSE IF b.d = 0 THEN R(0)
    ELSE IF a.d = 0 THEN Rat(Sign(a.n) * (IF b.n < 0 THEN -1 ELSE 1), 0)
    ELSE IF b.n = 0 THEN Rat(Sign(a.n), 0)
    ELSE Rat(a.n * b.d, a.d * b.n)

(***************************************************************************)
(* Strings                                                                 *)
(***************************************************************************)
MinI(a, b) == IF a < b THEN a ELSE b

\* <String as Ord>::lt : byte-wise lexicographic
StrLt(a, b) ==
    \E i \in 1..(MinI(Len(a), Len(b)) + 1) :
        /\ \A j \in 1..(i - 1) : a[j] = b[j]
        /\ \/ (i > Len(a) /\ i <= Len(b))
           \/ (i <= Len(a) /\ i <= Len(b) /\ a[i] < b[i])

\* u8::to_ascii_lowercase
ToLower(c) == IF c >= 65 /\ c <= 90 THEN c + 32 ELSE c
\* str::eq_ignore_ascii_case
eq_ignore_ascii_case(a, b) ==
    /\ Len(a) = Len(b)
    /\ \A i \in 1..Len(a) : ToLower(a[i]) = ToLower(b[i])

\* Vec<String>::sort() of the elements of a set (keys of a map, a HashSet)
RECURSIVE SortedSeq(_)
SortedSeq(S) ==
    IF S = {} THEN <<>>
    ELSE LET m == CHOOSE e \in S : \A o \in S : o = e \/ StrLt(e, o)
         IN  <<m>> \o SortedSeq(S \ {m})

Range(s) == {s[i] : i \in 1..Len(s)}

\* 0-based Iterator::position of the first element equal to e, as 1-based
\* index; 0 when absent
IndexOf(s, e) ==
    IF e \in Range(s) THEN CHOOSE i \in 1..Len(s) : s[i] = e /\ \A j \in 1..(i - 1) : s[j] # e
    ELSE 0

IsDigit(c) == c >= 48 /\ c <= 57

RECURSIVE DigitsVal(_)
DigitsVal(s) == IF s = <<>> THEN 0 ELSE DigitsVal(SubSeq(s, 1, Len(s) - 1)) * 10 + (s[Len(s)] - 48)

RECURSIVE Pow10(_)
Pow10(k) == IF k = 0 THEN 1 ELSE 10 * Pow10(k - 1)

\* str::parse::<f64>() on the decimal grammar  [+-]? digits* ('.' digits*)?
\* with at least one digit.  Exponents and the words inf / nan, which Rust
\* also accepts, use letters that no input of this model contains.
ParseF64(s) ==
    LET signed == Len(s) > 0 /\ s[1] \in {43, 45}
        neg == signed /\ s[1] = 45
        body == IF signed THEN Tail(s) ELSE s
        dots == {i \in 1..Len(body) : body[i] = 46}
        digs == SelectSeq(body, IsDigit)
        ok == /\ \A i \in 1..Len(body) : IsDigit(body[i]) \/ body[i] = 46
              /\ Cardinality(dots) <= 1
              /\ Len(digs) >= 1
        frac == IF dots = {} THEN 0 ELSE Len(body) - (CHOOSE i \in dots : TRUE)
        mag == Rat(DigitsVal(digs), Pow10(frac))
    IN  IF ok THEN [ok |-> TRUE, val |-> IF neg THEN RNeg(mag) ELSE mag]
        ELSE [ok |-> FALSE, val |-> NaN]

(***************************************************************************)
(* Result<T>                                                               *)
(***************************************************************************)
Ok(v) == [ok |-> TRUE, val |-> v]
Err(e) == [ok |-> FALSE, err |-> e]

\* The index of the first failed element of a sequence of Results, 0 when
\* all succeeded: a loop over the elements with `?` returns that error.
FirstErr(rs) ==
    IF \E i \in 1..Len(rs) : ~rs[i].ok
    THEN CHOOSE i \in 1..Len(rs) : ~rs[i].ok /\ \A j \in 1..(i - 1) : rs[j].ok
    ELSE 0

(***************************************************************************)
(* parser::ast                                                             *)
(***************************************************************************)
\* AestheticValue<T>
Fixed(v) == [tag |-> "Fixed", v |-> v]
Mapped(col) == [tag |-> "Mapped", col |-> col]

\* Layer::Line / Layer::Point / Layer::Bar.  `size` is LineLayer.width,
\* PointLayer.size, BarLayer.width; `shape` exists on PointLayer only and
\* `position` on BarLayer only (None / "Identity" on the other kinds).
MkLayer(kind, x, y, color, size, shape, alpha, position) ==
    [kind |-> kind, x |-> x, y |-> y, color |-> color, size |-> size,
     shape |-> shape, alpha |-> alpha, position |-> position]

\* Aesthetics
MkAes(x, y, color, size, shape, alpha) ==
    [x |-> x, y |-> y, color |-> color, size |-> size, shape |-> shape, alpha |-> alpha]

\* Facet
MkFacet(by, ncol, scales) == [by |-> by, ncol |-> ncol, scales |-> scales]

\* PlotSpec (labels play no part in the pipeline)
MkPlotSpec(aesthetics, layers, facet) ==
    [aesthetics |-> aesthetics, layers |-> layers, facet |-> facet]

\* CsvData
MkCsv(headers, rows) == [headers |-> headers, rows |-> rows]

(***************************************************************************)
(* resolve.rs                                                              *)
(***************************************************************************)
\* extract_mapped_string and extract_mapped_string_from_f64
extract_mapped_string(value) ==
    IF IsSome(value) /\ Unwrap(value).tag = "Mapped" THEN Some(Unwrap(value).col) ELSE None

\* A resolver in which the global block wins over the layer's override.
resolve_positional_global_first(layer, global_aes) ==
    IF IsSome(global_aes)
    THEN Ok([x_col |-> Unwrap(global_aes).x, y_col |-> Unwrap(global_aes).y])
    ELSE IF IsNone(layer.x) THEN Err("No x aesthetic specified")
    ELSE IF IsNone(layer.y) THEN Err("No y aesthetic specified")
    ELSE Ok([x_col |-> Unwrap(layer.x), y_col |-> Unwrap(layer.y)])

\* A resolver that looks for the y column before the x column.
resolve_positional_y_first(layer, global_aes) ==
    IF IsNone(layer.y) /\ IsNone(global_aes) THEN Err("No y aesthetic specified")
    ELSE IF IsNone(layer.x) /\ IsNone(global_aes) THEN Err("No x aesthetic specified")
    ELSE Ok([x_col |-> IF IsSome(layer.x) THEN Unwrap(layer.x) ELSE Unwrap(global_aes).x,
             y_col |-> IF IsSome(layer.y) THEN Unwrap(layer.y) ELSE Unwrap(global_aes).y])

resolve_positional(layer, global_aes) ==
    LET x_override == layer.x
        y_override == layer.y
    IN  IF IsNone(x_override) /\ IsNone(global_aes)
        THEN Err("No x aesthetic specified")
        ELSE IF IsNone(y_override) /\ IsNone(global_aes)
        THEN Err("No y aesthetic specified")
        ELSE Ok([x_col |-> IF IsSome(x_override) THEN Unwrap(x_override)
                           ELSE Unwrap(global_aes).x,
                 y_col |-> IF IsSome(y_override) THEN Unwrap(y_override)
                           ELSE Unwrap(global_aes).y])

\* global_aes.as_ref().and_then(|a| a.<channel>.clone())
GlobalChannel(global_aes, ch) ==
    IF IsSome(global_aes) THEN Unwrap(global_aes)[ch] ELSE None

resolve_layer_aesthetics(layer, global_aes) ==
    LET pos == resolve_positional(layer, global_aes)
        color == OrElse(extract_mapped_string(layer.color), GlobalChannel(global_aes, "color"))
        size == OrElse(extract_mapped_string(layer.size), GlobalChannel(global_aes, "size"))
        shape == OrElse(IF layer.kind = "Point" THEN extract_mapped_string(layer.shape) ELSE None,
                        GlobalChannel(global_aes, "shape"))
        alpha == OrElse(extract_mapped_string(layer.alpha), GlobalChannel(global_aes, "alpha"))
    IN  IF ~pos.ok THEN pos
        ELSE Ok([x_col |-> pos.val.x_col, y_col |-> pos.val.y_col, color |-> color,
                 size |-> size, shape |-> shape, alpha |-> alpha])

\* lines 9-17
resolve_facet(spec) ==
    IF IsSome(spec.facet)
    THEN Some([col |-> Unwrap(spec.facet).by, ncol |-> Unwrap(spec.facet).ncol,
               scales |-> Unwrap(spec.facet).scales])
    ELSE None

\* lines 20-32, with every layer's aesthetics resolved
resolved_spec_of(spec, rs) ==
    IF FirstErr(rs) # 0 THEN rs[FirstErr(rs)]
    ELSE Ok([layers |-> [i \in 1..Len(spec.layers) |->
                            [original_layer |-> spec.layers[i], aesthetics |-> rs[i].val]],
             facet |-> resolve_facet(spec)])

\* ResolvedSpec { layers: Vec<ResolvedLayer>, facet: Option<ResolvedFacet> }
resolve_plot_aesthetics(spec) ==
    resolved_spec_of(spec, [i \in 1..Len(spec.layers) |->
                               resolve_layer_aesthetics(spec.layers[i], spec.aesthetics)])

(***************************************************************************)
(* palette.rs                                                              *)
(***************************************************************************)
\* ColorPalette::category10
category10 ==
    <<"blue", "orange", "green", "red", "purple", "brown", "pink", "gray", "olive", "cyan">>
\* ShapePalette::default_shapes
default_shapes == <<"circle", "square", "triangle", "diamond", "cross", "star">>
\* SizePalette::default_range
min_size == 3
max_size == 15

\* get_color that stays on the last colour instead of wrapping around
get_color_clamped(index) ==
    category10[(IF index >= Len(category10) THEN Len(category10) - 1 ELSE index) + 1]

\* ColorPalette::get_color(index), index 0-based
get_color(index) == category10[(index % Len(category10)) + 1]
\* ShapePalette::get_shape(index), index 0-based
get_shape(index) == default_shapes[(index % Len(default_shapes)) + 1]

\* The 0-based position of the last occurrence of k in keys: collecting
\* (key, value) pairs into a HashMap keeps the last pair of a key.
LastPos(keys, k) == (CHOOSE i \in 1..Len(keys) : keys[i] = k /\ \A j \in (i + 1)..Len(keys) : keys[j] # k) - 1

\* ColorPalette::assign_colors
assign_colors(group_keys) == [k \in Range(group_keys) |-> get_color(LastPos(group_keys, k))]
\* ShapePalette::assign_shapes
assign_shapes(group_keys) == [k \in Range(group_keys) |-> get_shape(LastPos(group_keys, k))]
\* SizePalette::assign_sizes
assign_sizes(group_keys) ==
    LET num_groups == Len(group_keys)
    IN  IF num_groups = 0 THEN [k \in {} |-> R(0)]
        ELSE IF num_groups = 1
        THEN [k \in {group_keys[1]} |-> RDiv(RAdd(R(min_size), R(max_size)), R(2))]
        ELSE [k \in Range(group_keys) |->
                 LET fraction == RDiv(R(LastPos(group_keys, k)), R(num_groups - 1))
                 IN  RAdd(R(min_size), RMul(RSub(R(max_size), R(min_size)), fraction))]

(***************************************************************************)
(* transform.rs                                                            *)
(***************************************************************************)
\* HeaderPosition that takes the rightmost matching header
HeaderPosition_rightmost(headers, name) ==
    IF \E i \in 1..Len(headers) : eq_ignore_ascii_case(headers[i], name)
    THEN CHOOSE i \in 1..Len(headers) :
             /\ eq_ignore_ascii_case(headers[i], name)
             /\ \A j \in (i + 1)..Len(headers) : ~eq_ignore_ascii_case(headers[j], name)
    ELSE 0

\* headers.iter().position(|h| h.eq_ignore_ascii_case(name)), 1-based; 0 = None
HeaderPosition(headers, name) ==
    IF \E i \in 1..Len(headers) : eq_ignore_ascii_case(headers[i], name)
    THEN CHOOSE i \in 1..Len(headers) :
             /\ eq_ignore_ascii_case(headers[i], name)
             /\ \A j \in 1..(i - 1) : ~eq_ignore_ascii_case(headers[j], name)
    ELSE 0

find_col_index(headers, name) ==
    LET i == HeaderPosition(headers, name)
    IN  IF i = 0 THEN Err(<<"Column not found", name>>) ELSE Ok(i)

\* map.entry(key).or_default().push(v) for the rows in order: the map after
\* the loop `for row in rows`, keyed by row[col].
RECURSIVE GroupRowsBy(_, _, _)
GroupRowsBy(rows, col, acc) ==
    IF rows = <<>> THEN acc
    ELSE LET key == Head(rows)[col]
             old == IF key \in DOMAIN acc THEN acc[key] ELSE <<>>
         IN  GroupRowsBy(Tail(rows), col,
                 [k \in DOMAIN acc \cup {key} |-> IF k = key THEN Append(old, Head(rows)) ELSE acc[k]])

EmptyMap == [k \in {} |-> <<>>]

\* get_sorted_keys
get_sorted_keys(map) == SortedSeq(DOMAIN map)

\* Partition keys left in descending order.
partition_keys_desc(groups) ==
    LET asc == SortedSeq(DOMAIN groups)
    IN  [i \in 1..Len(asc) |-> asc[Len(asc) + 1 - i]]

\* keys.sort() of partition_data (lines 57-59)
partition_keys(groups) == SortedSeq(DOMAIN groups)

\* Vec<DataPartition>
partition_data(spec, csv_data) ==
    IF IsSome(spec.facet)
    THEN LET facet == Unwrap(spec.facet)
             col_idx == HeaderPosition(csv_data.headers, facet.col)
             groups == GroupRowsBy(csv_data.rows, col_idx, EmptyMap)
             keys == partition_keys(groups)
         IN  IF col_idx = 0 THEN Err(<<"Facet column not found", facet.col>>)
             ELSE Ok([i \in 1..Len(keys) |->
                         [title |-> keys[i],
                          data |-> MkCsv(csv_data.headers, groups[keys[i]])]])
    ELSE Ok(<<[title |-> <<>>, data |-> csv_data]>>)

\* (x as f64).sqrt().ceil() as usize, for the small counts of this model
\* where the f64 square root is exact to the integer above
CeilSqrt(n) == CHOOSE c \in 0..n : c * c >= n /\ (c = 0 \/ (c - 1) * (c - 1) < n)

\* usize::MAX, the value `f64::INFINITY as usize` saturates to
USIZE_MAX == "usize::MAX"

\* (n as f64 / cols as f64).ceil() as usize
CeilDivF64(n, cols) ==
    IF cols = 0 THEN (IF n = 0 THEN 0 ELSE USIZE_MAX)
    ELSE (n + cols - 1) \div cols

\* A grid whose row count is rounded down.
calculate_grid_dimensions_floor(n_panels, facet) ==
    LET cols == IF IsSome(facet) /\ IsSome(Unwrap(facet).ncol)
                THEN Unwrap(Unwrap(facet).ncol) ELSE CeilSqrt(n_panels)
    IN  [nrow |-> n_panels \div cols, ncol |-> cols]

calculate_grid_dimensions(n_panels, facet) ==
    IF IsSome(facet) /\ IsSome(Unwrap(facet).ncol)
    THEN LET cols == Unwrap(Unwrap(facet).ncol)
         IN  [nrow |-> CeilDivF64(n_panels, cols), ncol |-> cols]
    ELSE LET cols == CeilSqrt(n_panels)
         IN  [nrow |-> CeilDivF64(n_panels, cols), ncol |-> cols]

\* The loop of lines 134-147 over rows whose y cell parsed: the map
\* group key -> (raw x strings, y values), both in row order.
RECURSIVE RawGroups(_, _, _, _, _)
RawGroups(rows, x_idx, y_idx, group_idx, acc) ==
    IF rows = <<>> THEN acc
    ELSE LET row == Head(rows)
             group_key == IF group_idx # 0 THEN row[group_idx]
                          ELSE <<100, 101, 102, 97, 117, 108, 116>>  \* "default"
             old == IF group_key \in DOMAIN acc THEN acc[group_key]
                    ELSE [xs |-> <<>>, ys |-> <<>>]
             new == [xs |-> Append(old.xs, row[x_idx]),
                     ys |-> Append(old.ys, ParseF64(row[y_idx]).val)]
         IN  RawGroups(Tail(rows), x_idx, y_idx, group_idx,
                 [k \in DOMAIN acc \cup {group_key} |-> IF k = group_key THEN new ELSE acc[k]])

\* Categories in descending order.
category_order_desc(all_x_strings) ==
    LET asc == SortedSeq(all_x_strings)
    IN  [i \in 1..Len(asc) |-> asc[Len(asc) + 1 - i]]

\* lines 165-172: the distinct x strings, sorted
category_order_of(all_x_strings) == SortedSeq(all_x_strings)

\* lines 174-176: category -> its 0-based index as f64
x_category_map_of(category_order) ==
    [cat \in Range(category_order) |-> R(IndexOf(category_order, cat) - 1)]

\* A stacking step that stacks whatever the layer's position is.
stack_step_always(stack_offsets, stack_key, y_val, is_stacked) ==
    LET y_start == IF stack_key \in DOMAIN stack_offsets
                   THEN stack_offsets[stack_key] ELSE R(0)
        y_end == RAdd(y_start, y_val)
    IN  [y_start |-> y_start, y_end |-> y_end,
         stack_offsets |->
             [k \in DOMAIN stack_offsets \cup {stack_key} |->
                 IF k = stack_key THEN y_end ELSE stack_offsets[k]]]

\* A stacking step that records the row's own value, not its top, as the
\* category's running total.
stack_step_forgets_base(stack_offsets, stack_key, y_val, is_stacked) ==
    LET y_start == IF is_stacked /\ stack_key \in DOMAIN stack_offsets
                   THEN stack_offsets[stack_key] ELSE R(0)
        y_end == RAdd(y_start, y_val)
    IN  [y_start |-> y_start, y_end |-> y_end,
         stack_offsets |->
             IF is_stacked
             THEN [k \in DOMAIN stack_offsets \cup {stack_key} |->
                      IF k = stack_key THEN y_val ELSE stack_offsets[k]]
             ELSE stack_offsets]

\* lines 214-229: one row's y_start and y_end, and the running totals after it
stack_step(stack_offsets, stack_key, y_val, is_stacked) ==
    LET y_start == IF is_stacked /\ stack_key \in DOMAIN stack_offsets
                   THEN stack_offsets[stack_key] ELSE R(0)
        y_end == RAdd(y_start, y_val)
    IN  [y_start |-> y_start, y_end |-> y_end,
         stack_offsets |->
             IF is_stacked
             THEN [k \in DOMAIN stack_offsets \cup {stack_key} |->
                      IF k = stack_key THEN y_end ELSE stack_offsets[k]]
             ELSE stack_offsets]

\* lines 203-230: the rows of one group, from row i on.  acc carries the
\* three coordinate vectors and the running totals.  The stack key of a
\* continuous layer (x_val.to_string()) is never read, since only a bar
\* layer stacks and a bar layer is categorical.
RECURSIVE GroupPoints(_, _, _, _, _, _, _)
GroupPoints(raw_x, raw_y, i, use_categorical, x_category_map, is_stacked, acc) ==
    IF i > Len(raw_x) THEN acc
    ELSE LET x_s == raw_x[i]
             x_val == IF use_categorical THEN x_category_map[x_s] ELSE ParseF64(x_s).val
             st == stack_step(acc.stack_offsets, x_s, raw_y[i], is_stacked)
         IN  GroupPoints(raw_x, raw_y, i + 1, use_categorical, x_category_map, is_stacked,
                 [x |-> Append(acc.x, x_val),
                  y_start |-> Append(acc.y_start, st.y_start),
                  y |-> Append(acc.y, st.y_end),
                  stack_offsets |-> st.stack_offsets])

\* A colour picker that prefers the layer's fixed literal to the mapping.
pick_color_fixed_first(aes, group_key, color_map, l_color) ==
    IF IsSome(l_color) /\ Unwrap(l_color).tag = "Fixed" THEN Some(Unwrap(l_color).v)
    ELSE IF IsSome(aes.color) /\ group_key \in DOMAIN color_map THEN Some(color_map[group_key])
    ELSE None

\* build_style: the closure pick_color (lines 269-279)
pick_color(aes, group_key, color_map, l_color) ==
    IF IsSome(aes.color) /\ group_key \in DOMAIN color_map THEN Some(color_map[group_key])
    ELSE IF IsSome(l_color) /\ Unwrap(l_color).tag = "Fixed" THEN Some(Unwrap(l_color).v)
    ELSE None

\* build_style: the closure pick_size (lines 282-291)
pick_size(aes, group_key, size_map, l_val) ==
    IF IsSome(aes.size) /\ group_key \in DOMAIN size_map THEN Some(size_map[group_key])
    ELSE IF IsSome(l_val) /\ Unwrap(l_val).tag = "Fixed" THEN Some(Unwrap(l_val).v)
    ELSE None

\* build_style: the closure pick_alpha (lines 294-301); it never reads aes.alpha
pick_alpha(aes, group_key, l_val) ==
    IF IsSome(l_val) /\ Unwrap(l_val).tag = "Fixed" THEN Some(Unwrap(l_val).v)
    ELSE None

\* build_style: the shape of a PointStyle (lines 312-319)
pick_shape(aes, group_key, shape_map, l_shape) ==
    IF IsSome(aes.shape) /\ group_key \in DOMAIN shape_map THEN Some(shape_map[group_key])
    ELSE IF IsSome(l_shape) /\ Unwrap(l_shape).tag = "Fixed" THEN Some(Unwrap(l_shape).v)
    ELSE None

\* RenderStyle::Line(LineStyle) / Point(PointStyle) / Bar(BarStyle)
build_style(group_key, layer, aes, color_map, size_map, shape_map) ==
    CASE layer.kind = "Line" ->
            [kind |-> "Line",
             color |-> pick_color(aes, group_key, color_map, layer.color),
             width |-> pick_size(aes, group_key, size_map, layer.size),
             alpha |-> pick_alpha(aes, group_key, layer.alpha)]
      [] layer.kind = "Point" ->
            [kind |-> "Point",
             color |-> pick_color(aes, group_key, color_map, layer.color),
             size |-> pick_size(aes, group_key, size_map, layer.size),
             shape |-> pick_shape(aes, group_key, shape_map, layer.shape),
             alpha |-> pick_alpha(aes, group_key, layer.alpha)]
      [] layer.kind = "Bar" ->
            [kind |-> "Bar",
             color |-> pick_color(aes, group_key, color_map, layer.color),
             width |-> pick_size(aes, group_key, size_map, layer.size),
             alpha |-> pick_alpha(aes, group_key, layer.alpha)]

\* lines 232-242: the GroupData of one group from its coordinate vectors
group_data(key, keys, layer_spec, use_categorical, category_order, pts) ==
    [key |-> key, x |-> pts.x, y |-> pts.y, y_start |-> pts.y_start,
     x_categories |-> IF use_categorical THEN Some(category_order) ELSE None,
     style |-> build_style(key, layer_spec.original_layer, layer_spec.aesthetics,
                           assign_colors(keys), assign_sizes(keys), assign_shapes(keys))]

\* lines 190-193
is_stacked_of(layer) == layer.kind = "Bar" /\ layer.position = "Stack"

\* lines 196-243: the groups from sorted key k on; the running totals are
\* carried from one group to the next
RECURSIVE LayerGroups(_, _, _, _, _, _, _, _)
RECURSIVE LayerGroupsStep(_, _, _, _, _, _, _, _)
LayerGroupsStep(keys, k, raw_groups, layer_spec, use_categorical, category_order, pts, acc) ==
    LayerGroups(keys, k + 1, raw_groups, layer_spec, use_categorical, category_order,
                pts.stack_offsets,
                Append(acc, group_data(keys[k], keys, layer_spec, use_categorical,
                                       category_order, pts)))

LayerGroups(keys, k, raw_groups, layer_spec, use_categorical, category_order, stack_offsets, acc) ==
    IF k > Len(keys) THEN acc
    ELSE LayerGroupsStep(keys, k, raw_groups, layer_spec, use_categorical, category_order,
             GroupPoints(raw_groups[keys[k]].xs, raw_groups[keys[k]].ys, 1, use_categorical,
                         x_category_map_of(category_order),
                         is_stacked_of(layer_spec.original_layer),
                         [x |-> <<>>, y_start |-> <<>>, y |-> <<>>,
                          stack_offsets |-> stack_offsets]),
             acc)

\* axis_typing that takes a layer for continuous as soon as one x string
\* is a number
axis_typing_any_numeric(is_bar, all_x_strings) ==
    LET any_numeric == \E x_s \in all_x_strings : ParseF64(x_s).ok
        use_categorical == is_bar \/ ~any_numeric
    IN  [use_categorical |-> use_categorical,
         category_order |-> IF use_categorical THEN category_order_of(all_x_strings) ELSE <<>>]

\* lines 149-177: use_categorical and category_order from the x strings
axis_typing(is_bar, all_x_strings) ==
    LET all_numeric == \A x_s \in all_x_strings : ParseF64(x_s).ok
        use_categorical == is_bar \/ ~all_numeric
    IN  [use_categorical |-> use_categorical,
         category_order |-> IF use_categorical THEN category_order_of(all_x_strings) ELSE <<>>]

\* lines 149-245 of process_layer, once the rows are grouped
layer_of_groups(layer_spec, raw_groups, axis) ==
    [groups |-> LayerGroups(get_sorted_keys(raw_groups), 1, raw_groups, layer_spec,
                            axis.use_categorical, axis.category_order,
                            [k \in {} |-> R(0)], <<>>)]

AllXStrings(raw_groups) == UNION {Range(raw_groups[k].xs) : k \in DOMAIN raw_groups}

layer_of_raw_groups(layer_spec, raw_groups) ==
    layer_of_groups(layer_spec, raw_groups,
                    axis_typing(layer_spec.original_layer.kind = "Bar", AllXStrings(raw_groups)))

\* An extraction that skips the rows whose y cell does not parse.
extract_rows_skip_bad(layer_spec, rows, x_idx, y_idx, group_idx) ==
    Ok(layer_of_raw_groups(layer_spec,
           RawGroups(SelectSeq(rows, LAMBDA row : ParseF64(row[y_idx]).ok), x_idx, y_idx, group_idx,
                     [k \in {} |-> [xs |-> <<>>, ys |-> <<>>]])))

\* lines 134-147: the first row whose y cell does not parse fails the layer
extract_rows(layer_spec, rows, x_idx, y_idx, group_idx) ==
    LET bad_y == {i \in 1..Len(rows) : ~ParseF64(rows[i][y_idx]).ok}
    IN  IF bad_y # {}
        THEN Err(<<"Failed to parse Y value", rows[CHOOSE i \in bad_y : \A j \in bad_y : i <= j][y_idx]>>)
        ELSE Ok(layer_of_raw_groups(layer_spec,
                    RawGroups(rows, x_idx, y_idx, group_idx,
                              [k \in {} |-> [xs |-> <<>>, ys |-> <<>>]])))

\* group_col_of that looks at size before colour
group_col_of_size_first(aes) == OrElse(aes.size, OrElse(aes.color, OrElse(aes.shape, aes.alpha)))

\* A grouping column chosen from alpha first.
group_col_of_alpha_first(aes) == OrElse(aes.alpha, OrElse(aes.shape, OrElse(aes.size, aes.color)))

\* lines 114-118: the grouping column
group_col_of(aes) == OrElse(aes.color, OrElse(aes.size, OrElse(aes.shape, aes.alpha)))

\* lines 126-132, with the three lookups done
process_layer_cols(layer_spec, csv_data, x_idx, y_idx, group_idx) ==
    IF ~x_idx.ok THEN x_idx
    ELSE IF ~y_idx.ok THEN y_idx
    ELSE IF ~group_idx.ok THEN group_idx
    ELSE extract_rows(layer_spec, csv_data.rows, x_idx.val, y_idx.val, group_idx.val)

\* LayerData { groups }
process_layer(layer_spec, csv_data) ==
    process_layer_cols(layer_spec, csv_data,
        find_col_index(csv_data.headers, layer_spec.aesthetics.x_col),
        find_col_index(csv_data.headers, layer_spec.aesthetics.y_col),
        IF IsSome(group_col_of(layer_spec.aesthetics))
        THEN find_col_index(csv_data.headers, Unwrap(group_col_of(layer_spec.aesthetics)))
        ELSE Ok(0))

\* A loop `for e in .. { out.push(f(e)?) }` over already computed Results:
\* the first error, or the vector of values
Collect(rs) ==
    IF FirstErr(rs) # 0 THEN rs[FirstErr(rs)]
    ELSE Ok([i \in 1..Len(rs) |-> rs[i].val])

panel_of(index, layers) ==
    IF ~layers.ok THEN layers ELSE Ok([index |-> index, layers |-> layers.val])

\* process_partition with the layers processed last to first
process_partition_layers_reversed(index, partition, spec) ==
    panel_of(index, Collect([l \in 1..Len(spec.layers) |->
                                process_layer(spec.layers[Len(spec.layers) + 1 - l], partition.data)]))

\* PanelData { index, layers }
process_partition(index, partition, spec) ==
    panel_of(index, Collect([l \in 1..Len(spec.layers) |->
                                process_layer(spec.layers[l], partition.data)]))

\* lines 16-21 and 30-33
render_data_of(partitions, dims, panels) ==
    IF ~panels.ok THEN panels
    ELSE Ok([panels |-> panels.val,
             facet_layout |->
                 [nrow |-> dims.nrow, ncol |-> dims.ncol,
                  panel_titles |-> [i \in 1..Len(partitions) |-> partitions[i].title]]])

\* lines 13-34, once the data is partitioned
transform_partitions(spec, partitions) ==
    IF ~partitions.ok THEN partitions
    ELSE render_data_of(partitions.val,
             calculate_grid_dimensions(Len(partitions.val), spec.facet),
             Collect([i \in 1..Len(partitions.val) |->
                         process_partition(i - 1, partitions.val[i], spec)]))

\* RenderData { panels, facet_layout }
apply_transformations(spec, csv_data) ==
    transform_partitions(spec, partition_data(spec, csv_data))

(***************************************************************************)
(* csv_reader.rs                                                           *)
(***************************************************************************)
\* ColumnSelector::Index(usize) / ColumnSelector::Name(String); idx 0-based
SelectIndex(idx) == [tag |-> "Index", idx |-> idx]
SelectName(name) == [tag |-> "Name", name |-> name]

\* lines 50-75: the 1-based column index of a selector
column_index_of(data, selector) ==
    IF selector.tag = "Index"
    THEN IF selector.idx >= Len(data.headers)
         THEN Err(<<"Column index out of bounds", selector.idx>>)
         ELSE Ok(selector.idx + 1)
    ELSE IF HeaderPosition(data.headers, selector.name) = 0
         THEN Err(<<"Column not found", selector.name>>)
         ELSE Ok(HeaderPosition(data.headers, selector.name))

\* lines 77-98: the cells of the column as numbers, row by row with `?`
column_values(data, column_index) ==
    LET cells == [r \in 1..Len(data.rows) |->
                     IF column_index > Len(data.rows[r])
                     THEN Err(<<"Row has too few columns", r>>)
                     ELSE IF ~ParseF64(data.rows[r][column_index]).ok
                     THEN Err(<<"Failed to parse value", data.rows[r][column_index]>>)
                     ELSE Ok(ParseF64(data.rows[r][column_index]).val)]
    IN  IF FirstErr(cells) # 0 THEN cells[FirstErr(cells)]
        ELSE Ok([r \in 1..Len(cells) |-> cells[r].val])

\* extract_column: (column_name, values)
extract_column(data, selector) ==
    LET ci == column_index_of(data, selector)
    IN  IF ~ci.ok THEN ci
        ELSE IF ~column_values(data, ci.val).ok THEN column_values(data, ci.val)
        ELSE Ok(<<data.headers[ci.val], column_values(data, ci.val).val>>)

(***************************************************************************)
(* scale.rs                                                                *)
(***************************************************************************)
RECURSIVE Flatten(_)
Flatten(ss) == IF ss = <<>> THEN <<>> ELSE Head(ss) \o Flatten(Tail(ss))

\* `for layer in &panel.layers { for group in &layer.groups {` : the groups
\* of a panel in iteration order
PanelGroups(panel) == Flatten([l \in 1..Len(panel.layers) |-> panel.layers[l].groups])

\* `if val < min { min = val; }` over the values in order
RECURSIVE FoldMin(_, _)
FoldMin(vals, min) ==
    IF vals = <<>> THEN min
    ELSE FoldMin(Tail(vals), IF RLt(Head(vals), min) THEN Head(vals) ELSE min)

\* `if val > max { max = val; }` over the values in order
RECURSIVE FoldMax(_, _)
FoldMax(vals, max) ==
    IF vals = <<>> THEN max
    ELSE FoldMax(Tail(vals), IF RGt(Head(vals), max) THEN Head(vals) ELSE max)

\* `if categories.is_empty() { categories = cats.clone(); }` over the
\* category lists in order: the first non-empty one
RECURSIVE FirstNonEmpty(_)
FirstNonEmpty(lists) ==
    IF lists = <<>> THEN <<>>
    ELSE IF Head(lists) # <<>> THEN Head(lists)
    ELSE FirstNonEmpty(Tail(lists))

MaxI(a, b) == IF a > b THEN a ELSE b

\* MinMax { min, max, is_categorical, categories }
calculate_min_max_x(panel) ==
    LET groups == PanelGroups(panel)
        cat_groups == SelectSeq(groups, LAMBDA g : IsSome(g.x_categories))
        is_cat == cat_groups # <<>>
        categories == FirstNonEmpty([i \in 1..Len(cat_groups) |-> Unwrap(cat_groups[i].x_categories)])
        xs == Flatten([i \in 1..Len(groups) |-> groups[i].x])
    IN  IF is_cat
        THEN [min |-> R(0), max |-> R(MaxI(Len(categories), 1) - 1),
              is_categorical |-> TRUE, categories |-> categories]
        ELSE [min |-> FoldMin(xs, INFINITY), max |-> FoldMax(xs, NEG_INFINITY),
              is_categorical |-> FALSE, categories |-> <<>>]

\* calculate_min_max_y over the tops alone, without the bars' baseline
calculate_min_max_y_tops_only(panel) ==
    LET groups == PanelGroups(panel)
        vals == Flatten([i \in 1..Len(groups) |-> groups[i].y])
    IN  [min |-> FoldMin(vals, INFINITY), max |-> FoldMax(vals, NEG_INFINITY),
         is_categorical |-> FALSE, categories |-> <<>>]

calculate_min_max_y(panel) ==
    LET groups == PanelGroups(panel)
        has_bars == \E i \in 1..Len(groups) : groups[i].style.kind = "Bar"
        vals == Flatten([i \in 1..Len(groups) |-> groups[i].y \o groups[i].y_start])
        min0 == FoldMin(vals, INFINITY)
        max0 == FoldMax(vals, NEG_INFINITY)
    IN  [min |-> IF has_bars /\ RGt(min0, R(0)) THEN R(0) ELSE min0,
         max |-> IF has_bars /\ RLt(max0, R(0)) THEN R(0) ELSE max0,
         is_categorical |-> FALSE, categories |-> <<>>]

\* The loop body of merge_ranges, from range i on
RECURSIVE MergeFrom(_, _, _)
MergeFrom(ranges, i, global) ==
    IF i > Len(ranges) THEN global
    ELSE LET local == ranges[i]
         IN  MergeFrom(ranges, i + 1,
                 [min |-> IF RLt(local.min, global.min) THEN local.min ELSE global.min,
                  max |-> IF RGt(local.max, global.max) THEN local.max ELSE global.max,
                  is_categorical |-> global.is_categorical \/ local.is_categorical,
                  categories |-> IF local.is_categorical /\ global.categories = <<>>
                                 THEN local.categories ELSE global.categories])

\* A merge that keeps the first panel's range only.
merge_ranges_first_only(ranges) ==
    IF ranges = <<>> THEN [min |-> R(0), max |-> R(1), is_categorical |-> FALSE, categories |-> <<>>]
    ELSE ranges[1]

merge_ranges(ranges) ==
    LET global == MergeFrom(ranges, 1,
                      [min |-> INFINITY, max |-> NEG_INFINITY,
                       is_categorical |-> FALSE, categories |-> <<>>])
    IN  IF global.min = INFINITY THEN [global EXCEPT !.min = R(0), !.max = R(1)] ELSE global

\* A padding of 10% instead of 5%.
pad_range_ten_percent(min, max) ==
    IF REq(min, max) THEN <<RSub(min, R(1)), RAdd(max, R(1))>>
    ELSE LET padding == RMul(RSub(max, min), Rat(1, 10))
         IN  <<RSub(min, padding), RAdd(max, padding)>>

pad_range(min, max) ==
    IF REq(min, max) THEN <<RSub(min, R(1)), RAdd(max, R(1))>>
    ELSE LET padding == RMul(RSub(max, min), Rat(5, 100))
         IN  <<RSub(min, padding), RAdd(max, padding)>>

\* MinMax::default()
MinMaxDefault == [min |-> R(0), max |-> R(0), is_categorical |-> FALSE, categories |-> <<>>]

\* lines 45-74: the Scale pair of one panel from its two domains
panel_scales(x_domain, y_domain) ==
    LET n == Len(x_domain.categories)
        xp == pad_range(x_domain.min, x_domain.max)
        yp == pad_range(y_domain.min, y_domain.max)
    IN  [x |-> IF x_domain.is_categorical
               THEN [domain |-> <<R(0), R(n)>>, range |-> <<Rat(-1, 2), RSub(R(n), Rat(1, 2))>>,
                     is_categorical |-> TRUE, categories |-> x_domain.categories]
               ELSE [domain |-> xp, range |-> xp, is_categorical |-> FALSE, categories |-> <<>>],
         y |-> [domain |-> yp, range |-> yp, is_categorical |-> FALSE, categories |-> <<>>]]

\* build_scales with the two one-axis policies exchanged
build_scales_axes_swapped(data, facet_config) ==
    LET x_raw == [p \in 1..Len(data.panels) |-> calculate_min_max_x(data.panels[p])]
        y_raw == [p \in 1..Len(data.panels) |-> calculate_min_max_y(data.panels[p])]
        scales_mode == IF IsSome(facet_config) THEN Unwrap(facet_config).scales ELSE "Fixed"
        global_x == IF scales_mode \in {"Fixed", "FreeX"} THEN merge_ranges(x_raw) ELSE MinMaxDefault
        global_y == IF scales_mode \in {"Fixed", "FreeY"} THEN merge_ranges(y_raw) ELSE MinMaxDefault
    IN  Ok([panels |-> [p \in 1..Len(data.panels) |->
                panel_scales(IF scales_mode \in {"Fixed", "FreeX"} THEN global_x ELSE x_raw[p],
                             IF scales_mode \in {"Fixed", "FreeY"} THEN global_y ELSE y_raw[p])]])

\* ScaleSystem { panels }; facet_config is Option<ResolvedFacet>
build_scales(data, facet_config) ==
    LET x_raw == [p \in 1..Len(data.panels) |-> calculate_min_max_x(data.panels[p])]
        y_raw == [p \in 1..Len(data.panels) |-> calculate_min_max_y(data.panels[p])]
        scales_mode == IF IsSome(facet_config) THEN Unwrap(facet_config).scales ELSE "Fixed"
        global_x == IF scales_mode \in {"Fixed", "FreeY"} THEN merge_ranges(x_raw) ELSE MinMaxDefault
        global_y == IF scales_mode \in {"Fixed", "FreeX"} THEN merge_ranges(y_raw) ELSE MinMaxDefault
    IN  Ok([panels |-> [p \in 1..Len(data.panels) |->
                panel_scales(IF scales_mode \in {"Fixed", "FreeY"} THEN global_x ELSE x_raw[p],
                             IF scales_mode \in {"Fixed", "FreeX"} THEN global_y ELSE y_raw[p])]])

(***************************************************************************)
(* compiler.rs                                                             *)
(***************************************************************************)
\* style.width.unwrap_or(0.8)
bar_width_ratio_of(style) == IF IsSome(style.width) THEN Unwrap(style.width) ELSE Rat(8, 10)

\* Dodge offsets counted from the left edge instead of the centre.
dodge_params_left_aligned(position, bar_width_ratio, group_idx, num_groups) ==
    IF position = "Dodge"
    THEN LET slot == RDiv(bar_width_ratio, R(num_groups))
         IN  [slot_width |-> slot, x_offset_base |-> RMul(R(group_idx), slot)]
    ELSE [slot_width |-> bar_width_ratio, x_offset_base |-> R(0)]

\* lines 59-65: (slot_width, x_offset_base); group_idx is 0-based
dodge_params(position, bar_width_ratio, group_idx, num_groups) ==
    IF position = "Dodge"
    THEN LET slot == RDiv(bar_width_ratio, R(num_groups))
             base == RMul(RSub(R(group_idx), RDiv(RSub(R(num_groups), R(1)), R(2))), slot)
         IN  [slot_width |-> slot, x_offset_base |-> base]
    ELSE [slot_width |-> bar_width_ratio, x_offset_base |-> R(0)]

\* group.x.iter().zip(group.y.iter()) : as long as the shorter vector
ZipPoints(xs, ys) == [i \in 1..MinI(Len(xs), Len(ys)) |-> <<xs[i], ys[i]>>]

\* group_commands with the legend label on every rectangle of a bar group
group_commands_label_every_rect(group, group_idx, num_groups, position) ==
    CASE group.style.kind = "Line" ->
            <<[cmd |-> "DrawLine", points |-> ZipPoints(group.x, group.y),
               style |-> group.style, legend |-> Some(group.key)]>>
      [] group.style.kind = "Point" ->
            <<[cmd |-> "DrawPoint", points |-> ZipPoints(group.x, group.y),
               style |-> group.style, legend |-> Some(group.key)]>>
      [] group.style.kind = "Bar" ->
            LET dp == dodge_params(position, bar_width_ratio_of(group.style), group_idx, num_groups)
                half_width == RDiv(dp.slot_width, R(2))
            IN  [i \in 1..Len(group.x) |->
                    LET x_final == RAdd(group.x[i], dp.x_offset_base)
                    IN  [cmd |-> "DrawRect",
                         tl |-> <<RSub(x_final, half_width), group.y[i]>>,
                         br |-> <<RAdd(x_final, half_width), group.y_start[i]>>,
                         style |-> group.style,
                         legend |-> Some(group.key)]]

\* lines 33-91: the commands of one group; group_idx is 0-based
group_commands(group, group_idx, num_groups, position) ==
    CASE group.style.kind = "Line" ->
            <<[cmd |-> "DrawLine", points |-> ZipPoints(group.x, group.y),
               style |-> group.style, legend |-> Some(group.key)]>>
      [] group.style.kind = "Point" ->
            <<[cmd |-> "DrawPoint", points |-> ZipPoints(group.x, group.y),
               style |-> group.style, legend |-> Some(group.key)]>>
      [] group.style.kind = "Bar" ->
            LET dp == dodge_params(position, bar_width_ratio_of(group.style), group_idx, num_groups)
                half_width == RDiv(dp.slot_width, R(2))
            IN  [i \in 1..Len(group.x) |->
                    LET x_final == RAdd(group.x[i], dp.x_offset_base)
                    IN  [cmd |-> "DrawRect",
                         tl |-> <<RSub(x_final, half_width), group.y[i]>>,
                         br |-> <<RAdd(x_final, half_width), group.y_start[i]>>,
                         style |-> group.style,
                         legend |-> IF i = 1 THEN Some(group.key) ELSE None]]

\* layer_commands with the groups taken in descending key order
layer_commands_groups_reversed(layer_data, layer_spec) ==
    LET position == IF layer_spec.original_layer.kind = "Bar"
                    THEN layer_spec.original_layer.position ELSE "Identity"
        num_groups == Len(layer_data.groups)
    IN  Flatten([g \in 1..num_groups |->
                    group_commands(layer_data.groups[num_groups + 1 - g], num_groups - g,
                                   num_groups, position)])

\* lines 18-93: the commands of one layer of a panel; layer_idx is 1-based here
layer_commands(layer_data, layer_spec) ==
    LET position == IF layer_spec.original_layer.kind = "Bar"
                    THEN layer_spec.original_layer.position ELSE "Identity"
        num_groups == Len(layer_data.groups)
    IN  Flatten([g \in 1..num_groups |->
                    group_commands(layer_data.groups[g], g - 1, num_groups, position)])

\* format!("{} = {}", col, s)
FormatTitle(col, s) == col \o <<32, 61, 32>> \o s

\* panel_scene filling the grid column by column
panel_scene_column_major(panel_data, panel_scales_, facet_layout, spec) ==
    LET commands == Flatten([l \in 1..Len(panel_data.layers) |->
                                layer_commands(panel_data.layers[l], spec.layers[l])])
        raw_title == IF panel_data.index + 1 <= Len(facet_layout.panel_titles)
                     THEN Some(facet_layout.panel_titles[panel_data.index + 1]) ELSE None
        title == IF IsSome(raw_title) /\ Unwrap(raw_title) # <<>>
                 THEN Some(FormatTitle(Unwrap(spec.facet).col, Unwrap(raw_title)))
                 ELSE None
    IN  [row |-> panel_data.index % facet_layout.ncol,
         col |-> panel_data.index \div facet_layout.ncol,
         title |-> title,
         x_scale |-> panel_scales_.x,
         y_scale |-> panel_scales_.y,
         commands |-> commands]

\* PanelScene { row, col, title, x_scale, y_scale, commands }
panel_scene(panel_data, panel_scales_, facet_layout, spec) ==
    LET commands == Flatten([l \in 1..Len(panel_data.layers) |->
                                layer_commands(panel_data.layers[l], spec.layers[l])])
        raw_title == IF panel_data.index + 1 <= Len(facet_layout.panel_titles)
                     THEN Some(facet_layout.panel_titles[panel_data.index + 1]) ELSE None
        title == IF IsSome(raw_title) /\ Unwrap(raw_title) # <<>>
                 THEN Some(FormatTitle(Unwrap(spec.facet).col, Unwrap(raw_title)))
                 ELSE None
    IN  [row |-> panel_data.index \div facet_layout.ncol,
         col |-> panel_data.index % facet_layout.ncol,
         title |-> title,
         x_scale |-> panel_scales_.x,
         y_scale |-> panel_scales_.y,
         commands |-> commands]

\* SceneGraph { width, height, panels, title }.  An integer division by a
\* zero ncol panics; the panic is the Err result here.
compile_geometry(data, scales, spec) ==
    LET n == MinI(Len(data.panels), Len(scales.panels))
    IN  IF n > 0 /\ data.facet_layout.ncol = 0 THEN Err("attempt to divide by zero")
        ELSE Ok([width |-> 800, height |-> 600,
                 panels |-> [p \in 1..n |->
                                panel_scene(data.panels[p], scales.panels[p],
                                            data.facet_layout, spec)],
                 title |-> IF IsSome(spec.facet) THEN Some(<<>>) ELSE None])

(***************************************************************************)
(* The pipeline as a state machine                                         *)
(***************************************************************************)
VARIABLES
    pc,           \* "start", "resolved", "transformed", "scaled", "compiled", "failed"
    plot_spec,    \* the PlotSpec handed to the pipeline
    csv,          \* the CsvData handed to the pipeline
    resolved,     \* Result<ResolvedSpec> once resolve ran, None before
    render_data,  \* Result<RenderData> once transform ran, None before
    scales,       \* Result<ScaleSystem> once build_scales ran, None before
    scene         \* Result<SceneGraph> once compile_geometry ran, None before

vars == <<pc, plot_spec, csv, resolved, render_data, scales, scene>>

\* The caller holds a parsed PlotSpec and a CsvData read by
\* read_csv_from_stdin, which has at least one row and rows as long as the
\* header.  Each family of inputs below is a set of such pairs.
InitWith(inputs) ==
    /\ \E inp \in inputs : plot_spec = inp.spec /\ csv = inp.csv
    /\ pc = "start"
    /\ resolved = None
    /\ render_data = None
    /\ scales = None
    /\ scene = None

\* resolve_plot_aesthetics(&spec, &csv)
Resolve ==
    /\ pc = "start"
    /\ resolved' = resolve_plot_aesthetics(plot_spec)
    /\ pc' = IF resolved'.ok THEN "resolved" ELSE "failed"
    /\ UNCHANGED <<plot_spec, csv, render_data, scales, scene>>

\* apply_transformations(&resolved, &csv)
Transform ==
    /\ pc = "resolved"
    /\ render_data' = apply_transformations(resolved.val, csv)
    /\ pc' = IF render_data'.ok THEN "transformed" ELSE "failed"
    /\ UNCHANGED <<plot_spec, csv, resolved, scales, scene>>

\* build_scales(&render_data, resolved.facet.as_ref())
BuildScales ==
    /\ pc = "transformed"
    /\ scales' = build_scales(render_data.val, resolved.val.facet)
    /\ pc' = IF scales'.ok THEN "scaled" ELSE "failed"
    /\ UNCHANGED <<plot_spec, csv, resolved, render_data, scene>>

\* compile_geometry(render_data, scales, &resolved)
Compile ==
    /\ pc = "scaled"
    /\ scene' = compile_geometry(render_data.val, scales.val, resolved.val)
    /\ pc' = IF scene'.ok THEN "compiled" ELSE "failed"
    /\ UNCHANGED <<plot_spec, csv, resolved, render_data, scales>>

Next == Resolve \/ Transform \/ BuildScales \/ Compile

(***************************************************************************)
(* Inputs                                                                  *)
(***************************************************************************)
\* Bounds of the input families
MaxRows == 3
MaxLayers == 2
MaxPanels == 5
\* the largest number of group keys of the palette family
MaxKeys == 12

\* column names "x" "y" "g" "h" "f"
sx == <<120>>
sy == <<121>>
sg == <<103>>
sh == <<104>>
sf == <<102>>
\* cells "1" "2" "3" "5" "10" "-3" "-4" "A" "B" "p" "q" "r" "u" "v"
s1 == <<49>>
s2 == <<50>>
s3 == <<51>>
s5 == <<53>>
s10 == <<49, 48>>
sNeg3 == <<45, 51>>
sNeg4 == <<45, 52>>
sA == <<65>>
sB == <<66>>
sp == <<112>>
sq == <<113>>
sr == <<114>>
su == <<117>>
sv == <<118>>
\* facet values "N" "S" "E" "W" "C" "M"
FacetNames == <<<<78>>, <<83>>, <<69>>, <<87>>, <<67>>, <<77>>>>

DefaultLayer(kind) == MkLayer(kind, None, None, None, None, None, None, "Identity")
LayerKinds == {"Line", "Point", "Bar"}

\* All tables of 1..maxrows rows over the given row set
Tables(headers, rowset, maxrows) ==
    {MkCsv(headers, rows) : rows \in UNION {[1..n -> rowset] : n \in 1..maxrows}}

\* Sequences of 1..maxlen elements of a set
SeqsUpTo(S, maxlen) == UNION {[1..n -> S] : n \in 1..maxlen}

\* Family: layers with and without x / y overrides, with and without a
\* global aesthetic block, over a fixed all-numeric table.
ResolveLayers ==
    {[DefaultLayer(k) EXCEPT !.x = ox, !.y = oy] :
        k \in LayerKinds, ox \in {None, Some(sg)}, oy \in {None, Some(sh)}}
ResolveInputs ==
    {[spec |-> MkPlotSpec(aes, layers, None),
      csv |-> MkCsv(<<sx, sy, sg, sh>>, <<<<s1, s2, s3, s5>>, <<s2, s5, s1, s10>>>>)] :
        aes \in {None, Some(MkAes(sx, sy, None, None, None, None))},
        layers \in SeqsUpTo(ResolveLayers, MaxLayers)}
InitResolve == InitWith(ResolveInputs)
SpecResolve == InitResolve /\ [][Next]_vars

\* Family: one layer of each kind with every combination of absent, fixed
\* and mapped colour, size/width, shape (point layers) and alpha, under
\* every combination of global channel mappings, over a fixed table with
\* two values in each of the columns g and h.
ChannelChoices(fixed, col) == {None, Some(Fixed(fixed)), Some(Mapped(col))}
StyleLayers ==
    {MkLayer(k, None, None, color, size, shape, alpha, "Identity") :
        k \in {"Line", "Bar"},
        color \in ChannelChoices("red", sg),
        size \in ChannelChoices(R(2), sh),
        shape \in {None},
        alpha \in ChannelChoices(Rat(1, 2), sg)}
    \cup
    {MkLayer("Point", None, None, color, size, shape, alpha, "Identity") :
        color \in ChannelChoices("red", sg),
        size \in ChannelChoices(R(2), sh),
        shape \in ChannelChoices("star", sg),
        alpha \in ChannelChoices(Rat(1, 2), sg)}
StyleGlobals ==
    {MkAes(sx, sy, color, size, shape, alpha) :
        color \in {None, Some(sg)}, size \in {None, Some(sh)},
        shape \in {None, Some(sg)}, alpha \in {None, Some(sg)}}
StyleInputs ==
    {[spec |-> MkPlotSpec(Some(aes), <<layer>>, None),
      csv |-> MkCsv(<<sx, sy, sg, sh>>,
                    <<<<s1, s2, sp, su>>, <<s2, s5, sq, su>>, <<s3, s1, sq, sv>>>>)] :
        aes \in StyleGlobals, layer \in StyleLayers}
InitStyle == InitWith(StyleInputs)
SpecStyle == InitStyle /\ [][Next]_vars

\* Family: one bar or line layer over tables whose x cells are "10", "2"
\* (numbers whose numeric and lexicographic orders differ) and "A", the
\* rows ungrouped, grouped by colour on g, or faceted by g.
CatRows == {<<x, s1, g>> : x \in {s10, s2, sA}, g \in {sp, sq}}
CatSpecs ==
    {MkPlotSpec(Some(MkAes(sx, sy, None, None, None, None)), <<DefaultLayer(k)>>, None) :
        k \in {"Bar", "Line"}}
    \cup
    {MkPlotSpec(Some(MkAes(sx, sy, Some(sg), None, None, None)), <<DefaultLayer(k)>>, None) :
        k \in {"Bar", "Line"}}
    \cup
    {MkPlotSpec(Some(MkAes(sx, sy, None, None, None, None)), <<DefaultLayer(k)>>,
                Some(MkFacet(sg, None, "Fixed"))) :
        k \in {"Bar", "Line"}}
CatInputs ==
    {[spec |-> spec, csv |-> t] : spec \in CatSpecs, t \in Tables(<<sx, sy, sg>>, CatRows, MaxRows)}
InitCat == InitWith(CatInputs)
SpecCat == InitCat /\ [][Next]_vars

\* Family: one stacked bar layer over tables with categories "A", "B",
\* y cells "1", "2", "-3" and groups "p", "q"; the rows are grouped by
\* colour on g, or faceted by g (one "default" group per panel).
StackRows == {<<x, y, g>> : x \in {sA, sB}, y \in {s1, s2, sNeg3}, g \in {sp, sq}}
StackLayer == [DefaultLayer("Bar") EXCEPT !.position = "Stack"]
StackSpecs ==
    {MkPlotSpec(Some(MkAes(sx, sy, Some(sg), None, None, None)), <<StackLayer>>, None),
     MkPlotSpec(Some(MkAes(sx, sy, None, None, None, None)), <<StackLayer>>,
                Some(MkFacet(sg, None, "Fixed")))}
StackInputs ==
    {[spec |-> spec, csv |-> t] :
        spec \in StackSpecs, t \in Tables(<<sx, sy, sg>>, StackRows, MaxRows)}
InitStack == InitWith(StackInputs)
SpecStack == InitStack /\ [][Next]_vars

\* Family: one dodged bar layer whose width is absent, the literal 0.5 or
\* mapped to g, with and without colour mapped to g, over tables with
\* categories "A", "B" and up to three groups "p", "q", "r".
DodgeRows == {<<x, s1, g>> : x \in {sA, sB}, g \in {sp, sq, sr}}
DodgeLayers ==
    {[DefaultLayer("Bar") EXCEPT !.position = "Dodge", !.size = w, !.color = c] :
        w \in {None, Some(Fixed(Rat(1, 2))), Some(Mapped(sg))},
        c \in {None, Some(Mapped(sg))}}
DodgeInputs ==
    {[spec |-> MkPlotSpec(Some(MkAes(sx, sy, None, None, None, None)), <<layer>>, None),
      csv |-> t] :
        layer \in DodgeLayers, t \in Tables(<<sx, sy, sg>>, DodgeRows, MaxRows)}
InitDodge == InitWith(DodgeInputs)
SpecDodge == InitDodge /\ [][Next]_vars

\* Family: unfaceted plots of line and point layers over all-numeric
\* tables (x cells "1", "3"; y cells "2", "5", "-4"); the second layer of
\* the two-layer plot reads its y from the x column.
DomainRows == {<<x, y>> : x \in {s1, s3}, y \in {s2, s5, sNeg4}}
DomainLayers ==
    {<<DefaultLayer("Line")>>, <<DefaultLayer("Point")>>,
     <<DefaultLayer("Line"), [DefaultLayer("Point") EXCEPT !.y = Some(sx)]>>}
DomainInputs ==
    {[spec |-> MkPlotSpec(Some(MkAes(sx, sy, None, None, None, None)), layers, None),
      csv |-> t] :
        layers \in DomainLayers, t \in Tables(<<sx, sy>>, DomainRows, MaxRows)}
InitDomain == InitWith(DomainInputs)
SpecDomain == InitDomain /\ [][Next]_vars

\* Family: a line layer unfaceted or faceted by f with shared scales, and
\* a bar layer faceted by f with shared scales, over tables with x cells
\* "1", "3", "A", y cells "2", "-4" and facet values "N", "S".
SharedRows == {<<x, y, f>> : x \in {s1, s3, sA}, y \in {s2, sNeg4}, f \in {FacetNames[1], FacetNames[2]}}
SharedSpecs ==
    {MkPlotSpec(Some(MkAes(sx, sy, None, None, None, None)), <<DefaultLayer("Line")>>, None),
     MkPlotSpec(Some(MkAes(sx, sy, None, None, None, None)), <<DefaultLayer("Line")>>,
                Some(MkFacet(sf, None, "Fixed"))),
     MkPlotSpec(Some(MkAes(sx, sy, None, None, None, None)), <<DefaultLayer("Bar")>>,
                Some(MkFacet(sf, None, "Fixed")))}
SharedInputs ==
    {[spec |-> spec, csv |-> t] :
        spec \in SharedSpecs, t \in Tables(<<sx, sy, sf>>, SharedRows, MaxRows)}
InitShared == InitWith(SharedInputs)
SpecShared == InitShared /\ [][Next]_vars

\* Family: a point layer, unfaceted or faceted by f, over tables with y
\* cells "1", "2" and facet values "N", "S", "E"; and tables of k rows
\* carrying k distinct facet values, k up to MaxPanels, faceted with no
\* column count or an explicit one from 0 to 3.
FacetRows == {<<s1, y, f>> : y \in {s1, s2}, f \in {FacetNames[1], FacetNames[2], FacetNames[3]}}
FacetSpec(facet) ==
    MkPlotSpec(Some(MkAes(sx, sy, None, None, None, None)), <<DefaultLayer("Point")>>, facet)
ManyPanelsTable(k) == MkCsv(<<sx, sy, sf>>, [i \in 1..k |-> <<s1, s2, FacetNames[i]>>])
FacetInputs ==
    {[spec |-> FacetSpec(facet), csv |-> t] :
        facet \in {None, Some(MkFacet(sf, None, "Fixed"))},
        t \in Tables(<<sx, sy, sf>>, FacetRows, MaxRows)}
    \cup
    {[spec |-> FacetSpec(Some(MkFacet(sf, ncol, "Fixed"))), csv |-> ManyPanelsTable(k)] :
        ncol \in {None, Some(0), Some(1), Some(2), Some(3)}, k \in 1..MaxPanels}
InitFacet == InitWith(FacetInputs)
SpecFacet == InitFacet /\ [][Next]_vars

\* Family: a point layer whose x, y, colour, size, shape and alpha columns
\* and whose facet column each name a header of the table or the absent
\* column "zz".
szz == <<122, 122>>
ColumnSpecs ==
    {MkPlotSpec(Some(MkAes(x, y, color, size, shape, alpha)), <<DefaultLayer("Point")>>, facet) :
        x \in {sx, szz}, y \in {sy, szz},
        color \in {None, Some(sg), Some(szz)}, size \in {None, Some(sg), Some(szz)},
        shape \in {None, Some(sg), Some(szz)}, alpha \in {None, Some(sg), Some(szz)},
        facet \in {None, Some(MkFacet(sg, None, "Fixed")), Some(MkFacet(szz, None, "Fixed"))}}
ColumnInputs ==
    {[spec |-> spec, csv |-> MkCsv(<<sx, sy, sg>>, <<<<s1, s2, sp>>, <<s2, s5, sq>>>>)] :
        spec \in ColumnSpecs}
InitColumns == InitWith(ColumnInputs)
SpecColumns == InitColumns /\ [][Next]_vars

\* Family: tables whose x and y cells are a number or the word "A", with
\* facet values "N", "S"; a line layer, a bar layer, or a line layer with
\* a point layer that reads its y from the x column; unfaceted or faceted
\* by f.
ParseRows == {<<x, y, f>> : x \in {s1, sA}, y \in {s2, sA}, f \in {FacetNames[1], FacetNames[2]}}
ParseLayers ==
    {<<DefaultLayer("Line")>>, <<DefaultLayer("Bar")>>,
     <<DefaultLayer("Line"), [DefaultLayer("Point") EXCEPT !.y = Some(sx)]>>}
ParseInputs ==
    {[spec |-> MkPlotSpec(Some(MkAes(sx, sy, None, None, None, None)), layers, facet),
      csv |-> t] :
        layers \in ParseLayers,
        facet \in {None, Some(MkFacet(sf, None, "Fixed"))},
        t \in Tables(<<sx, sy, sf>>, ParseRows, MaxRows)}
InitParse == InitWith(ParseInputs)
SpecParse == InitParse /\ [][Next]_vars

\* Family: a plot without layers (each panel then has no group), or with
\* one line layer, unfaceted or faceted by f under each sharing policy,
\* over tables with x cells "1", "3" and facet values "N", "S".
FacetPolicies == {"Fixed", "FreeX", "FreeY", "Free"}
EmptyRows == {<<x, s2, f>> : x \in {s1, s3}, f \in {FacetNames[1], FacetNames[2]}}
EmptyInputs ==
    {[spec |-> MkPlotSpec(Some(MkAes(sx, sy, None, None, None, None)), layers, facet),
      csv |-> t] :
        layers \in {<<>>, <<DefaultLayer("Line")>>},
        facet \in {None} \cup {Some(MkFacet(sf, None, policy)) : policy \in FacetPolicies},
        t \in Tables(<<sx, sy, sf>>, EmptyRows, MaxRows)}
InitEmpty == InitWith(EmptyInputs)
SpecEmpty == InitEmpty /\ [][Next]_vars

\* Family: one or two layers of different kinds, the rows ungrouped or
\* grouped by colour on g, unfaceted or faceted by g, over tables with
\* y cells "1", "2", "5" and group values "p", "q".
OrderRows == {<<s1, y, g>> : y \in {s1, s2, s5}, g \in {sp, sq}}
OrderLayers ==
    {<<DefaultLayer("Bar"), DefaultLayer("Line")>>,
     <<DefaultLayer("Point"), DefaultLayer("Bar")>>,
     <<DefaultLayer("Line")>>}
OrderInputs ==
    {[spec |-> MkPlotSpec(Some(MkAes(sx, sy, color, None, None, None)), layers, facet),
      csv |-> t] :
        color \in {None, Some(sg)},
        layers \in OrderLayers,
        facet \in {None, Some(MkFacet(sg, None, "Fixed"))},
        t \in Tables(<<sx, sy, sg>>, OrderRows, MaxRows)}
InitOrder == InitWith(OrderInputs)
SpecOrder == InitOrder /\ [][Next]_vars

\* Family: a line layer faceted by f under each of the three policies that
\* free an axis, over tables of six possible rows with x cells "1", "3",
\* "A", y cells "2", "-4" and facet values "N", "S".
PolicyRows ==
    {<<s3, s2, FacetNames[1]>>, <<s1, sNeg4, FacetNames[1]>>, <<sA, s2, FacetNames[1]>>,
     <<s1, s2, FacetNames[2]>>, <<s1, sNeg4, FacetNames[2]>>, <<sA, sNeg4, FacetNames[2]>>}
PolicySpecs ==
    {MkPlotSpec(Some(MkAes(sx, sy, None, None, None, None)), <<DefaultLayer("Line")>>,
                Some(MkFacet(sf, None, policy))) : policy \in {"FreeX", "FreeY", "Free"}}
PolicyInputs ==
    {[spec |-> spec, csv |-> t] :
        spec \in PolicySpecs, t \in Tables(<<sx, sy, sf>>, PolicyRows, MaxRows)}
InitPolicy == InitWith(PolicyInputs)
SpecPolicy == InitPolicy /\ [][Next]_vars

\* Family: one layer of each kind under every combination of global
\* colour, size and shape mappings on g, over the tables of k rows with the
\* k distinct group values "a", "b", ... in ascending or descending row
\* order, k up to MaxKeys (more keys than the colour palette has colours).
PaletteKey(i) == <<96 + i>>
PaletteTable(k, descending) ==
    MkCsv(<<sx, sy, sg>>,
          [i \in 1..k |-> <<s1, s2, PaletteKey(IF descending THEN k + 1 - i ELSE i)>>])
PaletteInputs ==
    {[spec |-> MkPlotSpec(Some(MkAes(sx, sy, color, size, shape, None)),
                          <<DefaultLayer(kind)>>, None),
      csv |-> PaletteTable(k, descending)] :
        color \in {None, Some(sg)}, size \in {None, Some(sg)}, shape \in {None, Some(sg)},
        kind \in LayerKinds, k \in 1..MaxKeys, descending \in BOOLEAN}
InitPalette == InitWith(PaletteInputs)
SpecPalette == InitPalette /\ [][Next]_vars

\* Family: a line layer whose x column is named "x" or "X", y column "y",
\* colour column absent, "g" or "G", facet absent or on "g", over the
\* two-row tables of every three headers among "x", "X", "y", "Y", "g",
\* "G" (duplicate, case-variant and missing headers); the cell of row r
\* and column j is the digit 3 (r - 1) + j, so each cell tells its column.
sX == <<88>>
sY == <<89>>
sG == <<71>>
CaseHeaders == [1..3 -> {sx, sX, sy, sY, sg, sG}]
CaseRows == [r \in 1..2 |-> [j \in 1..3 |-> <<48 + 3 * (r - 1) + j>>]]
CaseInputs ==
    {[spec |-> MkPlotSpec(Some(MkAes(x, sy, color, None, None, None)),
                          <<DefaultLayer("Line")>>, facet),
      csv |-> MkCsv(headers, CaseRows)] :
        x \in {sx, sX}, color \in {None, Some(sg), Some(sG)},
        facet \in {None, Some(MkFacet(sg, None, "Fixed"))},
        headers \in CaseHeaders}
InitCase == InitWith(CaseInputs)
SpecCase == InitCase /\ [][Next]_vars

\* Family: a bar layer, a line layer, or a bar layer followed by a line
\* layer, unfaceted or faceted by f under each sharing policy, over tables
\* with x cells "1", "A", "B" and facet values "N", "S".
LabelRows == {<<x, s1, f>> : x \in {s1, sA, sB}, f \in {FacetNames[1], FacetNames[2]}}
LabelLayers ==
    {<<DefaultLayer("Bar")>>, <<DefaultLayer("Line")>>,
     <<DefaultLayer("Bar"), DefaultLayer("Line")>>}
LabelInputs ==
    {[spec |-> MkPlotSpec(Some(MkAes(sx, sy, None, None, None, None)), layers, facet),
      csv |-> t] :
        layers \in LabelLayers,
        facet \in {None} \cup {Some(MkFacet(sf, None, policy)) : policy \in FacetPolicies},
        t \in Tables(<<sx, sy, sf>>, LabelRows, MaxRows)}
InitLabel == InitWith(LabelInputs)
SpecLabel == InitLabel /\ [][Next]_vars

\* Family: one layer of each kind under every combination of global
\* colour, size, shape and alpha mappings, each channel on a column of its
\* own (g, h, f, k), over tables of four possible rows whose four columns
\* split the rows differently.
sk == <<107>>
GroupRows ==
    {<<s1, s1, sq, su, FacetNames[1], sr>>, <<s1, s2, sp, su, FacetNames[2], sr>>,
     <<s1, s3, sq, sv, FacetNames[2], sr>>, <<s1, s5, sp, sv, FacetNames[1], sr>>}
GroupInputs ==
    {[spec |-> MkPlotSpec(Some(MkAes(sx, sy, color, size, shape, alpha)),
                          <<DefaultLayer(kind)>>, None),
      csv |-> t] :
        color \in {None, Some(sg)}, size \in {None, Some(sh)},
        shape \in {None, Some(sf)}, alpha \in {None, Some(sk)},
        kind \in LayerKinds,
        t \in Tables(<<sx, sy, sg, sh, sf, sk>>, GroupRows, MaxRows)}
InitGroup == InitWith(GroupInputs)
SpecGroup == InitGroup /\ [][Next]_vars

\* Family: a line, a point or a bar layer of each position, two stacked
\* bar layers, or a line layer before a stacked bar layer; the rows
\* ungrouped, grouped by colour on g, or faceted by g; over tables of four
\* possible rows, three of them in category "A".
PositionRows ==
    {<<sA, s2, sp>>, <<sA, s2, sq>>, <<sA, sNeg3, sq>>, <<sB, s2, sp>>}
BarAt(position) == [DefaultLayer("Bar") EXCEPT !.position = position]
PositionLayers ==
    {<<DefaultLayer("Line")>>, <<DefaultLayer("Point")>>,
     <<BarAt("Identity")>>, <<BarAt("Dodge")>>, <<BarAt("Stack")>>,
     <<BarAt("Stack"), BarAt("Stack")>>, <<DefaultLayer("Line"), BarAt("Stack")>>}
PositionInputs ==
    {[spec |-> MkPlotSpec(Some(MkAes(sx, sy, gf[1], None, None, None)), layers, gf[2]),
      csv |-> t] :
        gf \in {<<None, None>>, <<Some(sg), None>>, <<None, Some(MkFacet(sg, None, "Fixed"))>>},
        layers \in PositionLayers,
        t \in Tables(<<sx, sy, sg>>, PositionRows, MaxRows)}
InitPosition == InitWith(PositionInputs)
SpecPosition == InitPosition /\ [][Next]_vars

\* Family: Identity bars, stacked bars, a line before bars, or a line
\* alone, unfaceted or faceted by f under each sharing policy, over tables
\* with y cells "2", "5", "-3" and facet values "N", "S".
BaselineRows == {<<sA, y, f>> : y \in {s2, s5, sNeg3}, f \in {FacetNames[1], FacetNames[2]}}
BaselineLayers ==
    {<<BarAt("Identity")>>, <<BarAt("Stack")>>,
     <<DefaultLayer("Line"), BarAt("Identity")>>, <<DefaultLayer("Line")>>}
BaselineInputs ==
    {[spec |-> MkPlotSpec(Some(MkAes(sx, sy, None, None, None, None)), layers, facet),
      csv |-> t] :
        layers \in BaselineLayers,
        facet \in {None} \cup {Some(MkFacet(sf, None, policy)) : policy \in FacetPolicies},
        t \in Tables(<<sx, sy, sf>>, BaselineRows, MaxRows)}
InitBaseline == InitWith(BaselineInputs)
SpecBaseline == InitBaseline /\ [][Next]_vars

\* Family: bars of each position with the default width or the fixed
\* width 1, two bar layers, bars after a line, and two bar layers reading
\* their x from different columns; ungrouped or coloured by g; unfaceted
\* or faceted by f under each sharing policy.
ExtentRows ==
    {<<sA, s2, sp, FacetNames[1]>>, <<sA, s2, sq, FacetNames[1]>>, <<sB, s2, sq, FacetNames[1]>>,
     <<sA, s2, sp, FacetNames[2]>>, <<sB, s2, sq, FacetNames[2]>>}
ExtentLayers ==
    {<<[BarAt(position) EXCEPT !.size = w]>> :
        position \in {"Identity", "Stack", "Dodge"}, w \in {None, Some(Fixed(R(1)))}}
    \cup {<<BarAt("Dodge"), BarAt("Stack")>>,
          <<DefaultLayer("Line"), BarAt("Dodge")>>,
          <<[BarAt("Identity") EXCEPT !.x = Some(sf)], BarAt("Identity")>>}
ExtentInputs ==
    {[spec |-> MkPlotSpec(Some(MkAes(sx, sy, color, None, None, None)), layers, facet),
      csv |-> t] :
        color \in {None, Some(sg)},
        layers \in ExtentLayers,
        facet \in {None} \cup {Some(MkFacet(sf, None, policy)) : policy \in FacetPolicies},
        t \in Tables(<<sx, sy, sg, sf>>, ExtentRows, MaxRows)}
InitExtent == InitWith(ExtentInputs)
SpecExtent == InitExtent /\ [][Next]_vars

(***************************************************************************)
(* Claims                                                                  *)
(***************************************************************************)
\* C1: for every layer, the resolved x column is the layer's x override when
\* there is one and the global block's x otherwise, and independently the
\* same for y.
C1_OverrideWins ==
    (pc = "resolved") =>
        \A i \in 1..Len(plot_spec.layers) :
            LET layer == plot_spec.layers[i]
                aes == resolved.val.layers[i].aesthetics
            IN  /\ Len(resolved.val.layers) = Len(plot_spec.layers)
                /\ aes.x_col = IF IsSome(layer.x) THEN Unwrap(layer.x)
                               ELSE Unwrap(plot_spec.aesthetics).x
                /\ aes.y_col = IF IsSome(layer.y) THEN Unwrap(layer.y)
                               ELSE Unwrap(plot_spec.aesthetics).y

\* C1 witness: a resolved layer that takes x from the global block and y
\* from its own override.
C1_Witness ==
    /\ pc = "resolved"
    /\ IsSome(plot_spec.aesthetics)
    /\ \E i \in 1..Len(plot_spec.layers) :
        /\ IsNone(plot_spec.layers[i].x)
        /\ IsSome(plot_spec.layers[i].y)
        /\ resolved.val.layers[i].aesthetics.x_col = sx
        /\ resolved.val.layers[i].aesthetics.y_col = sh

\* The fixed literal of a layer's channel value, if it is one
FixedOf(value) ==
    IF IsSome(value) /\ Unwrap(value).tag = "Fixed" THEN Some(Unwrap(value).v) ELSE None

\* The keys of a layer's groups, in the order of the groups
GroupKeys(layer_data) == [g \in 1..Len(layer_data.groups) |-> layer_data.groups[g].key]

\* For one group: a channel with a resolved column carries the palette's
\* value for the group key, one without carries the layer's fixed literal
\* if there is one and nothing otherwise.
ColorRule(layer, aes, keys, group) ==
    group.style.color = IF IsSome(aes.color) THEN Some(assign_colors(keys)[group.key])
                        ELSE FixedOf(layer.color)
SizeRule(layer, aes, keys, group) ==
    (IF layer.kind = "Point" THEN group.style.size ELSE group.style.width)
        = IF IsSome(aes.size) THEN Some(assign_sizes(keys)[group.key])
          ELSE FixedOf(layer.size)
ShapeRule(layer, aes, keys, group) ==
    layer.kind = "Point" =>
        group.style.shape = IF IsSome(aes.shape) THEN Some(assign_shapes(keys)[group.key])
                            ELSE FixedOf(layer.shape)
\* There is no alpha palette: a mapped alpha is at least never the layer's
\* fixed literal.
AlphaRule(layer, aes, keys, group) ==
    IF IsSome(aes.alpha)
    THEN IsSome(FixedOf(layer.alpha)) => group.style.alpha # FixedOf(layer.alpha)
    ELSE group.style.alpha = FixedOf(layer.alpha)

\* C2: for every group and every channel among colour, size/width, shape
\* (point layers) and alpha, a channel with a resolved column carries the
\* palette-assigned value and never the layer's fixed literal; the fixed
\* literal appears only when the channel has no resolved column.
C2_MappedBeatsFixed ==
    (pc = "transformed") =>
        \A p \in 1..Len(render_data.val.panels) :
            \A l \in 1..Len(render_data.val.panels[p].layers) :
                LET layer_data == render_data.val.panels[p].layers[l]
                    layer == plot_spec.layers[l]
                    aes == resolved.val.layers[l].aesthetics
                IN  \A g \in 1..Len(layer_data.groups) :
                        /\ ColorRule(layer, aes, GroupKeys(layer_data), layer_data.groups[g])
                        /\ SizeRule(layer, aes, GroupKeys(layer_data), layer_data.groups[g])
                        /\ ShapeRule(layer, aes, GroupKeys(layer_data), layer_data.groups[g])
                        /\ AlphaRule(layer, aes, GroupKeys(layer_data), layer_data.groups[g])

\* C2 without alpha: the rule holds of colour, size/width and shape.
C2_ColorSizeShape ==
    (pc = "transformed") =>
        \A p \in 1..Len(render_data.val.panels) :
            \A l \in 1..Len(render_data.val.panels[p].layers) :
                LET layer_data == render_data.val.panels[p].layers[l]
                    layer == plot_spec.layers[l]
                    aes == resolved.val.layers[l].aesthetics
                IN  \A g \in 1..Len(layer_data.groups) :
                        /\ ColorRule(layer, aes, GroupKeys(layer_data), layer_data.groups[g])
                        /\ SizeRule(layer, aes, GroupKeys(layer_data), layer_data.groups[g])
                        /\ ShapeRule(layer, aes, GroupKeys(layer_data), layer_data.groups[g])

\* C2 witness: a transformed layer with a fixed alpha literal whose alpha
\* channel resolved to the global mapping.
C2_Witness ==
    /\ pc = "transformed"
    /\ IsSome(FixedOf(plot_spec.layers[1].alpha))
    /\ IsSome(resolved.val.layers[1].aesthetics.alpha)
    /\ IsSome(FixedOf(plot_spec.layers[1].color))
    /\ IsSome(resolved.val.layers[1].aesthetics.color)

\* The rows of the input table behind panel p of a render data: the rows
\* whose facet cell is the panel's title, or all rows without a facet.
PanelRowsOf(rd, table, p) ==
    IF IsSome(plot_spec.facet)
    THEN SelectSeq(table.rows,
             LAMBDA r : r[HeaderPosition(table.headers, Unwrap(plot_spec.facet).by)]
                            = rd.facet_layout.panel_titles[p])
    ELSE table.rows

\* The rows behind the group with the given key of layer l in panel p, in
\* input order.
GroupRowsOf(rd, table, p, l, key) ==
    LET gc == group_col_of(resolved.val.layers[l].aesthetics)
    IN  IF IsNone(gc) THEN PanelRowsOf(rd, table, p)
        ELSE SelectSeq(PanelRowsOf(rd, table, p),
                 LAMBDA r : r[HeaderPosition(table.headers, Unwrap(gc))] = key)

\* The x column of layer l
XColOf(table, l) == HeaderPosition(table.headers, resolved.val.layers[l].aesthetics.x_col)
\* The y column of layer l
YColOf(table, l) == HeaderPosition(table.headers, resolved.val.layers[l].aesthetics.y_col)

IsCategoricalLayer(layer_data) ==
    \E g \in 1..Len(layer_data.groups) : IsSome(layer_data.groups[g].x_categories)

\* The category list c is the strictly ascending list of the distinct x
\* strings of the panel's rows, every group carries it, and every point's
\* x is the 0-based position in c of its row's x string.
CategoricalRule(rd, table, p, l) ==
    LET layer_data == rd.panels[p].layers[l]
        c == Unwrap(layer_data.groups[1].x_categories)
        xcol == XColOf(table, l)
        prows == PanelRowsOf(rd, table, p)
    IN  /\ Range(c) = {prows[i][xcol] : i \in 1..Len(prows)}
        /\ \A i, j \in 1..Len(c) : i < j => StrLt(c[i], c[j])
        /\ \A g \in 1..Len(layer_data.groups) :
            LET group == layer_data.groups[g]
                grows == GroupRowsOf(rd, table, p, l, group.key)
            IN  /\ group.x_categories = Some(c)
                /\ Len(group.x) = Len(grows)
                /\ \A i \in 1..Len(group.x) :
                    /\ group.x[i].d = 1
                    /\ group.x[i].n \in 0..(Len(c) - 1)
                    /\ c[group.x[i].n + 1] = grows[i][xcol]

\* What a render data assigns in panel p, layer l: per group its category
\* list and the (x string, x coordinate) pairs of its rows.
LayerAssignment(rd, table, p, l) ==
    LET groups == rd.panels[p].layers[l].groups
    IN  {<<p, l, groups[g].key, groups[g].x_categories,
           {<<GroupRowsOf(rd, table, p, l, groups[g].key)[i][XColOf(table, l)], groups[g].x[i]>> :
                i \in 1..Len(groups[g].x)}>> : g \in 1..Len(groups)}

CatAssignment(rd, table) ==
    UNION {LayerAssignment(rd, table, p, l) :
              p \in 1..Len(rd.panels), l \in 1..Len(plot_spec.layers)}

\* The table with rows i and i + 1 exchanged
SwapRows(table, i) ==
    [table EXCEPT !.rows = [k \in 1..Len(table.rows) |->
        IF k = i THEN table.rows[i + 1] ELSE IF k = i + 1 THEN table.rows[i] ELSE table.rows[k]]]

\* C3: in a categorical layer of a panel, every point's x is the 0-based
\* position of its x string in the ascending lexicographic list of the
\* distinct x strings of the panel's rows; the positions are dense, all
\* groups of the layer share the list, and exchanging two neighbouring
\* input rows (hence, the family being closed under it, any permutation
\* of the rows) leaves the assignment unchanged.
C3_CategoryIndex ==
    (pc = "transformed" /\ render_data.ok) =>
        /\ \A p \in 1..Len(render_data.val.panels) :
            \A l \in 1..Len(render_data.val.panels[p].layers) :
                IsCategoricalLayer(render_data.val.panels[p].layers[l])
                    => CategoricalRule(render_data.val, csv, p, l)
        /\ \A i \in 1..(Len(csv.rows) - 1) :
            LET swapped == SwapRows(csv, i)
                rd2 == apply_transformations(resolved.val, swapped)
            IN  /\ rd2.ok
                /\ CatAssignment(rd2.val, swapped) = CatAssignment(render_data.val, csv)

\* A bar layer with two groups whose rows arrive as "2", "A", "10": the
\* categories are "10" < "2" < "A" and the first row gets index 1.
C3_Witness ==
    /\ pc = "transformed" /\ render_data.ok
    /\ Len(csv.rows) = 3
    /\ csv.rows[1][1] = s2 /\ csv.rows[2][1] = sA /\ csv.rows[3][1] = s10
    /\ Len(render_data.val.panels) = 1
    /\ Len(render_data.val.panels[1].layers[1].groups) = 2
    /\ render_data.val.panels[1].layers[1].groups[1].x_categories = Some(<<s10, s2, sA>>)
    /\ \E g \in 1..2 : render_data.val.panels[1].layers[1].groups[g].x[1] = R(1)

\* The points <<g, i>> of layer l in panel p whose x is the category of
\* 0-based index k, and their processing order: groups in the order of the
\* layer's group list (sorted keys), rows in input order within a group.
CategoryPoints(rd, p, l, k) ==
    {gi \in (1..Len(rd.panels[p].layers[l].groups)) \X (1..MaxRows + 1) :
        /\ gi[2] <= Len(rd.panels[p].layers[l].groups[gi[1]].x)
        /\ rd.panels[p].layers[l].groups[gi[1]].x[gi[2]] = R(k)}
Before(a, b) == a[1] < b[1] \/ (a[1] = b[1] /\ a[2] < b[2])
IsStackLayer(l) ==
    /\ plot_spec.layers[l].kind = "Bar"
    /\ plot_spec.layers[l].position = "Stack"
YStartAt(rd, p, l, gi) == rd.panels[p].layers[l].groups[gi[1]].y_start[gi[2]]
YAt(rd, p, l, gi) == rd.panels[p].layers[l].groups[gi[1]].y[gi[2]]
CategoriesOf(rd, p, l) == Unwrap(rd.panels[p].layers[l].groups[1].x_categories)

\* The <<panel, layer, category index>> triples of the stacked layers
StackCells ==
    UNION {UNION {{<<p, l, k>> : k \in 0..(Len(CategoriesOf(render_data.val, p, l)) - 1)} :
                     l \in {l \in 1..Len(render_data.val.panels[p].layers) : IsStackLayer(l)}} :
              p \in 1..Len(render_data.val.panels)}
PointsOf(cell) == CategoryPoints(render_data.val, cell[1], cell[2], cell[3])

YStartNonDecreasing(p, l, pts) ==
    \A a, b \in pts :
        Before(a, b) => RLe(YStartAt(render_data.val, p, l, a), YStartAt(render_data.val, p, l, b))

\* The first row of a category starts at 0 and every later one at the top
\* of the row processed just before it.
YStartIsPreviousTop(p, l, pts) ==
    \A b \in pts :
        LET earlier == {a \in pts : Before(a, b)}
        IN  IF earlier = {} THEN YStartAt(render_data.val, p, l, b) = R(0)
            ELSE LET prev == CHOOSE a \in earlier : \A c \in earlier : c = a \/ Before(c, a)
                 IN  YStartAt(render_data.val, p, l, b) = YAt(render_data.val, p, l, prev)

AllYNonNegative ==
    \A i \in 1..Len(csv.rows) :
        \A c \in 1..Len(csv.headers) :
            eq_ignore_ascii_case(csv.headers[c], sy) => RLe(R(0), ParseF64(csv.rows[i][c]).val)

\* C4 as stated: for a Stack bar layer the y_start values of a category,
\* in processing order, never decrease, whatever the numeric y values.
C4_NonDecreasingAnyY ==
    (pc = "transformed" /\ render_data.ok) =>
        \A cell \in StackCells : YStartNonDecreasing(cell[1], cell[2], PointsOf(cell))

\* C4 amended: each row of a category starts at the top of the row
\* processed before it (0 for the first), so the y_start values never
\* decrease when no y value of the input is negative.
C4_NonDecreasingNonNegativeY ==
    (pc = "transformed" /\ render_data.ok) =>
        /\ \A cell \in StackCells : YStartIsPreviousTop(cell[1], cell[2], PointsOf(cell))
        /\ AllYNonNegative =>
               \A cell \in StackCells : YStartNonDecreasing(cell[1], cell[2], PointsOf(cell))

\* Three rows of category "A" in two groups with y 2, 1, 2: y_start 0, 2, 3.
C4_Witness ==
    /\ pc = "transformed" /\ render_data.ok
    /\ IsStackLayer(1) /\ AllYNonNegative
    /\ Len(render_data.val.panels) = 1
    /\ Len(render_data.val.panels[1].layers[1].groups) = 2
    /\ render_data.val.panels[1].layers[1].groups[1].x = <<R(0), R(0)>>
    /\ render_data.val.panels[1].layers[1].groups[1].y_start = <<R(0), R(2)>>
    /\ render_data.val.panels[1].layers[1].groups[2].x = <<R(0)>>
    /\ render_data.val.panels[1].layers[1].groups[2].y_start = <<R(3)>>

RECURSIVE RSum(_)
RSum(vals) == IF vals = <<>> THEN R(0) ELSE RAdd(RSum(SubSeq(vals, 1, Len(vals) - 1)), vals[Len(vals)])

\* The y values of the panel's rows whose x string is cat, in input order
CategoryYValues(rd, table, p, l, cat) ==
    LET rows == SelectSeq(PanelRowsOf(rd, table, p), LAMBDA r : r[XColOf(table, l)] = cat)
    IN  [i \in 1..Len(rows) |-> ParseF64(rows[i][YColOf(table, l)]).val]

LastTopIsSum(p, l, pts) ==
    pts # {} =>
        LET last == CHOOSE a \in pts : \A c \in pts : c = a \/ Before(c, a)
            cat == CategoriesOf(render_data.val, p, l)
                       [render_data.val.panels[p].layers[l].groups[last[1]].x[last[2]].n + 1]
        IN  YAt(render_data.val, p, l, last)
                = RSum(CategoryYValues(render_data.val, csv, p, l, cat))

\* C5: for a Stack bar layer, in every panel and category, the y (top) of
\* the last processed row of the category is the sum of the y values of
\* all the panel's rows of that category.
C5_LastTopIsSum ==
    (pc = "transformed" /\ render_data.ok) =>
        \A cell \in StackCells : LastTopIsSum(cell[1], cell[2], PointsOf(cell))

\* Category "A" holds 2 (group p), -3 and 1 (group q): its last top is 0,
\* while category-free sums would give something else.
C5_Witness ==
    /\ pc = "transformed" /\ render_data.ok
    /\ IsStackLayer(1)
    /\ csv.rows = <<<<sA, sNeg3, sq>>, <<sA, s2, sp>>, <<sA, s1, sq>>>>
    /\ Len(render_data.val.panels) = 1
    /\ render_data.val.panels[1].layers[1].groups[2].y = <<R(-1), R(0)>>

\* The groups of the only layer of the only panel, and the rectangle
\* drawn for the first row of the group at 1-based position g (the
\* commands list the groups' rectangles group after group).
DodgeGroups == render_data.val.panels[1].layers[1].groups
RECURSIVE RowsBefore(_)
RowsBefore(g) == IF g = 1 THEN 0 ELSE RowsBefore(g - 1) + Len(DodgeGroups[g - 1].x)
FirstRect(g) == scene.val.panels[1].commands[RowsBefore(g) + 1]
\* The shift of the group: the rectangle's centre minus the row's x
XOffset(g) ==
    RSub(RDiv(RAdd(FirstRect(g).tl[1], FirstRect(g).br[1]), R(2)), DodgeGroups[g].x[1])
\* The slot width of the group: the rectangle's width
SlotWidth(g) == RSub(FirstRect(g).br[1], FirstRect(g).tl[1])
IsDodgeCompiled ==
    /\ pc = "compiled" /\ scene.ok
    /\ plot_spec.layers[1].kind = "Bar" /\ plot_spec.layers[1].position = "Dodge"
    /\ Len(plot_spec.layers) = 1 /\ Len(render_data.val.panels) = 1
\* Each group is shifted by (k - (N-1)/2) * slot width, its slot width
\* being its style's width ratio (0.8 by default) over N.
OffsetFormula ==
    LET N == Len(DodgeGroups)
    IN  \A g \in 1..N :
            /\ SlotWidth(g) = RDiv(bar_width_ratio_of(DodgeGroups[g].style), R(N))
            /\ XOffset(g) = RMul(Rat(2 * (g - 1) - (N - 1), 2), SlotWidth(g))
OffsetsSumToZero ==
    RSum([g \in 1..Len(DodgeGroups) |-> XOffset(g)]) = R(0)

\* C6 as stated: under Dodge the group at 0-based position k of N is
\* shifted by (k - (N-1)/2) * slot width, slot width = width ratio / N,
\* and the shifts of the N groups sum to 0, for every style the
\* transformer assigns.
C6_DodgeCentred ==
    IsDodgeCompiled => (OffsetFormula /\ OffsetsSumToZero)

\* What does hold: the shift formula per group with the group's own width
\* ratio, and a zero sum when the layer's width is not mapped to a column.
C6_DodgeCentredUnmappedWidth ==
    IsDodgeCompiled =>
        /\ OffsetFormula
        /\ IsNone(resolved.val.layers[1].aesthetics.size) => OffsetsSumToZero

\* Three groups with the fixed width 0.5: shifts -1/6, 0, 1/6.
C6_Witness ==
    /\ IsDodgeCompiled
    /\ plot_spec.layers[1].size = Some(Fixed(Rat(1, 2)))
    /\ Len(DodgeGroups) = 3
    /\ XOffset(1) = Rat(-1, 6) /\ XOffset(2) = R(0) /\ XOffset(3) = Rat(1, 6)

\* The interval [m, M] widened by 5% of its length on both sides, by 1 on
\* both sides when m = M.
Padded(m, M) ==
    IF m = M THEN <<RSub(m, R(1)), RAdd(M, R(1))>>
    ELSE <<RSub(m, RDiv(RSub(M, m), R(20))), RAdd(M, RDiv(RSub(M, m), R(20)))>>
\* lo and hi are the least and the greatest value of a non-empty set
IsMinMax(vals, lo, hi) ==
    /\ lo \in vals /\ hi \in vals
    /\ \A v \in vals : RLe(lo, v) /\ RLe(v, hi)
\* The domain is the padded [min, max] of the values
IsPaddedRangeOf(domain, vals) ==
    \E lo \in vals : \E hi \in vals : IsMinMax(vals, lo, hi) /\ domain = Padded(lo, hi)
\* The cells that the plot's layers read as x, and as y, as numbers
XDataValues ==
    {ParseF64(csv.rows[i][XColOf(csv, l)]).val :
        i \in 1..Len(csv.rows), l \in 1..Len(plot_spec.layers)}
YDataValues ==
    {ParseF64(csv.rows[i][YColOf(csv, l)]).val :
        i \in 1..Len(csv.rows), l \in 1..Len(plot_spec.layers)}
IsNumericLinePointPlot ==
    /\ pc = "scaled" /\ scales.ok
    /\ IsNone(plot_spec.facet)
    /\ \A l \in 1..Len(plot_spec.layers) : plot_spec.layers[l].kind \in {"Line", "Point"}
    /\ \A l \in 1..Len(plot_spec.layers) :
        \A i \in 1..Len(csv.rows) : ParseF64(csv.rows[i][XColOf(csv, l)]).ok

\* C7 as stated: for an unfaceted plot of line / point layers with numeric
\* x, each axis' domain is the padded [min, max] of that axis' data
\* values.
C7_PaddedDataRange ==
    IsNumericLinePointPlot =>
        /\ IsPaddedRangeOf(scales.val.panels[1].x.domain, XDataValues)
        /\ IsPaddedRangeOf(scales.val.panels[1].y.domain, YDataValues)

\* What does hold: the x domain is the padded range of the x values, the
\* y domain the padded range of the y values together with 0.
C7_PaddedRangeWithZero ==
    IsNumericLinePointPlot =>
        /\ Len(scales.val.panels) = 1
        /\ IsPaddedRangeOf(scales.val.panels[1].x.domain, XDataValues)
        /\ IsPaddedRangeOf(scales.val.panels[1].y.domain, YDataValues \cup {R(0)})

\* A line through (1, 2) and (3, 5): x domain [0.9, 3.1], y domain
\* [-0.25, 5.25] and not [1.85, 5.15].
C7_Witness ==
    /\ IsNumericLinePointPlot
    /\ csv.rows = <<<<s1, s2>>, <<s3, s5>>>>
    /\ Len(plot_spec.layers) = 1
    /\ scales.val.panels[1].x.domain = <<Rat(9, 10), Rat(31, 10)>>
    /\ scales.val.panels[1].y.domain = <<Rat(-1, 4), Rat(21, 4)>>

IsSharedScaled ==
    /\ pc = "scaled" /\ scales.ok
    /\ IsNone(plot_spec.facet) \/ Unwrap(plot_spec.facet).scales = "Fixed"
AllPanelsSameScales ==
    /\ Len(scales.val.panels) = Len(render_data.val.panels)
    /\ \A p \in 1..Len(scales.val.panels) : scales.val.panels[p] = scales.val.panels[1]
\* The ends of the panels' raw x ranges, and of their raw y ranges
RawXEnds ==
    UNION {{calculate_min_max_x(render_data.val.panels[p]).min,
            calculate_min_max_x(render_data.val.panels[p]).max} :
               p \in 1..Len(render_data.val.panels)}
RawYEnds ==
    UNION {{calculate_min_max_y(render_data.val.panels[p]).min,
            calculate_min_max_y(render_data.val.panels[p]).max} :
               p \in 1..Len(render_data.val.panels)}
AnyPanelCategorical ==
    \E p \in 1..Len(render_data.val.panels) :
        calculate_min_max_x(render_data.val.panels[p]).is_categorical
\* The category list of the first panel that has one
FirstPanelCategories ==
    LET first == CHOOSE p \in 1..Len(render_data.val.panels) :
                     /\ calculate_min_max_x(render_data.val.panels[p]).is_categorical
                     /\ \A q \in 1..(p - 1) :
                            ~calculate_min_max_x(render_data.val.panels[q]).is_categorical
    IN  calculate_min_max_x(render_data.val.panels[first]).categories

\* C8 as stated: under the Fixed policy (and without a facet) all panels
\* get the same x scale and the same y scale, and each shared domain is
\* the padded union of the panels' raw ranges.
C8_SharedPaddedUnion ==
    IsSharedScaled =>
        /\ AllPanelsSameScales
        /\ IsPaddedRangeOf(scales.val.panels[1].x.domain, RawXEnds)
        /\ IsPaddedRangeOf(scales.val.panels[1].y.domain, RawYEnds)

\* C8 amended: all panels get the same scales; the y domain, and the x
\* domain when no panel is categorical, is the padded union of the raw
\* ranges; when some panel is categorical the x domain is [0, n], unpadded,
\* n being the number of categories of the first categorical panel.
C8_SharedScales ==
    IsSharedScaled =>
        /\ AllPanelsSameScales
        /\ IsPaddedRangeOf(scales.val.panels[1].y.domain, RawYEnds)
        /\ IF AnyPanelCategorical
           THEN /\ scales.val.panels[1].x.domain = <<R(0), R(Len(FirstPanelCategories))>>
                /\ scales.val.panels[1].x.categories = FirstPanelCategories
           ELSE IsPaddedRangeOf(scales.val.panels[1].x.domain, RawXEnds)

\* Two line panels, N holding (3, 2) and S holding (1, -4), (1, 2): both
\* get x domain [0.9, 3.1] and y domain [-4.3, 2.3].
C8_Witness ==
    /\ IsSharedScaled
    /\ IsSome(plot_spec.facet) /\ plot_spec.layers[1].kind = "Line"
    /\ csv.rows = <<<<s3, s2, FacetNames[1]>>, <<s1, sNeg4, FacetNames[2]>>, <<s1, s2, FacetNames[2]>>>>
    /\ Len(scales.val.panels) = 2
    /\ scales.val.panels[2].x.domain = <<Rat(9, 10), Rat(31, 10)>>
    /\ scales.val.panels[1].y.domain = <<Rat(-43, 10), Rat(23, 10)>>

\* The values of the facet column
FacetValues ==
    {csv.rows[i][HeaderPosition(csv.headers, Unwrap(plot_spec.facet).by)] : i \in 1..Len(csv.rows)}
\* The y cells of a sequence of rows, as numbers, for layer l
YValuesOf(rows, l) == [i \in 1..Len(rows) |-> ParseF64(rows[i][YColOf(csv, l)]).val]
\* The panel's layers are what the transform makes of the panel's rows
\* alone: for an ungrouped, unstacked layer one group whose points are
\* those rows in input order.
PanelHoldsItsRows(p) ==
    /\ render_data.val.panels[p].index = p - 1
    /\ Len(render_data.val.panels[p].layers) = Len(plot_spec.layers)
    /\ \A l \in 1..Len(plot_spec.layers) :
        LET groups == render_data.val.panels[p].layers[l].groups
        IN  /\ Len(groups) = 1
            /\ groups[1].y = YValuesOf(PanelRowsOf(render_data.val, csv, p), l)
            /\ Len(groups[1].x) = Len(PanelRowsOf(render_data.val, csv, p))
    /\ render_data.val.panels[p].layers
           = apply_transformations([resolved.val EXCEPT !.facet = None],
                 MkCsv(csv.headers, PanelRowsOf(render_data.val, csv, p))).val.panels[1].layers

\* C9: with a facet column there is one panel per distinct value of the
\* column, in ascending lexicographic order of the values, panel i titled
\* by the i-th value and computed from exactly the rows carrying it, in
\* input order; without a facet there is one panel holding all rows.
C9_FacetPartition ==
    (pc = "transformed" /\ render_data.ok) =>
        LET panels == render_data.val.panels
            titles == render_data.val.facet_layout.panel_titles
        IN  /\ \A p \in 1..Len(panels) : PanelHoldsItsRows(p)
            /\ IF IsSome(plot_spec.facet)
               THEN /\ Len(panels) = Cardinality(FacetValues)
                    /\ Len(titles) = Len(panels)
                    /\ Range(titles) = FacetValues
                    /\ \A i, j \in 1..Len(titles) : i < j => StrLt(titles[i], titles[j])
               ELSE Len(panels) = 1

\* Rows with facet values S, E, S: panel 1 is "E" with the second row,
\* panel 2 is "S" with the first and the third row in that order.
C9_Witness ==
    /\ pc = "transformed" /\ render_data.ok
    /\ csv.rows = <<<<s1, s1, FacetNames[2]>>, <<s1, s2, FacetNames[3]>>, <<s1, s2, FacetNames[2]>>>>
    /\ IsSome(plot_spec.facet)
    /\ render_data.val.facet_layout.panel_titles = <<FacetNames[3], FacetNames[2]>>
    /\ render_data.val.panels[1].layers[1].groups[1].y = <<R(2)>>
    /\ render_data.val.panels[2].layers[1].groups[1].y = <<R(1), R(2)>>

\* C10: for n panels, ncol is the explicit column count when given and
\* otherwise the least c with c * c >= n; nrow is ceil(n / ncol) (stated
\* for ncol >= 1, where the quotient exists); two panels without a column
\* count give 1 row of 2 columns.
C10_GridDimensions ==
    (pc = "transformed" /\ render_data.ok) =>
        LET n == Len(render_data.val.panels)
            nrow == render_data.val.facet_layout.nrow
            ncol == render_data.val.facet_layout.ncol
            explicit == IF IsSome(plot_spec.facet) THEN Unwrap(plot_spec.facet).ncol ELSE None
        IN  /\ IF IsSome(explicit) THEN ncol = Unwrap(explicit)
               ELSE ncol * ncol >= n /\ \A c \in 0..(ncol - 1) : c * c < n
            /\ ncol >= 1 => (nrow * ncol >= n /\ (nrow - 1) * ncol < n)
            /\ (n = 2 /\ IsNone(explicit)) => (nrow = 1 /\ ncol = 2)

\* Five panels without a column count: 2 rows of 3 columns.
C10_Witness ==
    /\ pc = "transformed" /\ render_data.ok
    /\ IsSome(plot_spec.facet) /\ IsNone(Unwrap(plot_spec.facet).ncol)
    /\ Len(render_data.val.panels) = 5
    /\ render_data.val.facet_layout.nrow = 2
    /\ render_data.val.facet_layout.ncol = 3

\* The layer has no x override or no y override and the plot has no global
\* aesthetic block.
LacksAxis(layer) ==
    IsNone(plot_spec.aesthetics) /\ (IsNone(layer.x) \/ IsNone(layer.y))

\* C11: resolve fails exactly when some layer lacks an x or a y override
\* and there is no global block; the error names the missing axis of the
\* first such layer, x when both are missing; nothing is produced then;
\* on success every layer has an x column and a y column.
C11_MissingAesthetic ==
    (pc # "start") =>
        LET lacking == {i \in 1..Len(plot_spec.layers) : LacksAxis(plot_spec.layers[i])}
        IN  /\ ~resolved.ok <=> lacking # {}
            /\ ~resolved.ok =>
                LET first == CHOOSE i \in lacking : \A j \in lacking : i <= j
                IN  /\ resolved.err = IF IsNone(plot_spec.layers[first].x)
                                      THEN "No x aesthetic specified"
                                      ELSE "No y aesthetic specified"
                    /\ "val" \notin DOMAIN resolved
                    /\ pc = "failed" /\ render_data = None
            /\ resolved.ok =>
                /\ Len(resolved.val.layers) = Len(plot_spec.layers)
                /\ \A i \in 1..Len(plot_spec.layers) :
                    /\ resolved.val.layers[i].aesthetics.x_col \in {sx, sg}
                    /\ resolved.val.layers[i].aesthetics.y_col \in {sy, sh}

\* No global block and a single layer with neither override: the error
\* names x.
C11_Witness ==
    /\ pc = "failed"
    /\ IsNone(plot_spec.aesthetics)
    /\ Len(plot_spec.layers) = 1
    /\ IsNone(plot_spec.layers[1].x) /\ IsNone(plot_spec.layers[1].y)
    /\ ~resolved.ok /\ resolved.err = "No x aesthetic specified"

\* Some header of the table matches the name, ASCII case ignored
HasHeader(name) == \E i \in 1..Len(csv.headers) : eq_ignore_ascii_case(csv.headers[i], name)
\* transform has run (resolve having succeeded)
TransformRan == pc \notin {"start", "resolved"} /\ resolved.ok
\* The resolved column names of layer i: x, y and the mapped channels
ResolvedColumns(i) ==
    LET aes == resolved.val.layers[i].aesthetics
    IN  {aes.x_col, aes.y_col}
            \cup UNION {Range(aes[ch]) : ch \in {"color", "size", "shape", "alpha"}}
\* The columns transform looks up for layer i: x, y and the grouping
\* column, the first present of colour, size, shape, alpha
LookedUpColumns(i) ==
    LET aes == resolved.val.layers[i].aesthetics
    IN  {aes.x_col, aes.y_col}
            \cup Range(IF IsSome(aes.color) THEN aes.color
                       ELSE IF IsSome(aes.size) THEN aes.size
                       ELSE IF IsSome(aes.shape) THEN aes.shape ELSE aes.alpha)
FacetColumns == IF IsSome(resolved.val.facet) THEN {Unwrap(resolved.val.facet).col} ELSE {}
IsColumnNotFound(result) ==
    /\ ~result.ok
    /\ "val" \notin DOMAIN result
    /\ result.err[1] \in {"Column not found", "Facet column not found"}
    /\ ~HasHeader(result.err[2])

\* C12 as stated: transform fails with a column-not-found error whenever
\* any resolved column of any layer (x, y, colour, size, shape, alpha) or
\* the facet column matches no header.
C12_AnyMissingColumnFails ==
    TransformRan =>
        ((\E c \in FacetColumns \cup UNION {ResolvedColumns(i) : i \in 1..Len(resolved.val.layers)} :
              ~HasHeader(c))
            => IsColumnNotFound(render_data))

\* What does hold: transform fails with a column-not-found error exactly
\* when the facet column, or a layer's x, y or grouping column, matches no
\* header; a missing column of a channel that is not the grouping column
\* goes unnoticed.
C12_LookedUpColumnFails ==
    TransformRan =>
        ((\E c \in FacetColumns \cup UNION {LookedUpColumns(i) : i \in 1..Len(resolved.val.layers)} :
              ~HasHeader(c))
            <=> IsColumnNotFound(render_data))

\* Colour mapped to the absent column "zz": the lookup of the grouping
\* column fails.
C12_Witness ==
    /\ TransformRan
    /\ Unwrap(plot_spec.aesthetics).x = sx /\ Unwrap(plot_spec.aesthetics).y = sy
    /\ Unwrap(plot_spec.aesthetics).color = Some(szz)
    /\ IsNone(plot_spec.facet)
    /\ IsColumnNotFound(render_data)
    /\ render_data.err = <<"Column not found", szz>>

\* The <<layer, row>> pairs whose y cell is not a number
BadYCells ==
    {lr \in (1..Len(plot_spec.layers)) \X (1..Len(csv.rows)) :
        ~ParseF64(csv.rows[lr[2]][YColOf(csv, lr[1])]).ok}
\* The number of points of layer l over all panels and groups
RECURSIVE SumLen(_)
SumLen(seqs) == IF seqs = <<>> THEN 0 ELSE Len(Head(seqs)) + SumLen(Tail(seqs))
LayerPointCount(l) ==
    SumLen(Flatten([p \in 1..Len(render_data.val.panels) |->
               [g \in 1..Len(render_data.val.panels[p].layers[l].groups) |->
                   render_data.val.panels[p].layers[l].groups[g].y]]))

\* C13: transform fails, with no RenderData at all, when the y cell of any
\* row of any layer is not a number; a non-numeric x cell is no error, so
\* (all columns present) transform otherwise succeeds, and then no row
\* has been skipped.
C13_BadYFails ==
    TransformRan =>
        /\ ~render_data.ok <=> BadYCells # {}
        /\ ~render_data.ok =>
            /\ "val" \notin DOMAIN render_data
            /\ render_data.err[1] = "Failed to parse Y value"
            /\ ~ParseF64(render_data.err[2]).ok
            /\ pc = "failed" /\ scales = None /\ scene = None
        /\ render_data.ok =>
            \A l \in 1..Len(plot_spec.layers) : LayerPointCount(l) = Len(csv.rows)

\* Two panels, the only bad y cell in the last row of the second one: no
\* panel is kept.
C13_Witness ==
    /\ TransformRan /\ ~render_data.ok /\ pc = "failed"
    /\ IsSome(plot_spec.facet) /\ Len(plot_spec.layers) = 1
    /\ csv.rows = <<<<sA, s2, FacetNames[1]>>, <<s1, s2, FacetNames[2]>>, <<s1, sA, FacetNames[2]>>>>
    /\ render_data.err = <<"Failed to parse Y value", sA>>

\* build_scales has run (resolve and transform having succeeded)
BuildScalesRan == pc \notin {"start", "resolved", "transformed"} /\ resolved.ok /\ render_data.ok
\* Panel p holds no data point
IsEmptyPanel(p) ==
    \A l \in 1..Len(render_data.val.panels[p].layers) :
        \A g \in 1..Len(render_data.val.panels[p].layers[l].groups) :
            render_data.val.panels[p].layers[l].groups[g].x = <<>>
ScalesMode == IF IsSome(plot_spec.facet) THEN Unwrap(plot_spec.facet).scales ELSE "Fixed"

\* C14 as stated: build_scales succeeds for every RenderData and policy,
\* and a panel without data points gets the domain [0, 1] on each axis.
C14_EmptyPanelUnitDomain ==
    BuildScalesRan =>
        /\ scales.ok
        /\ Len(scales.val.panels) = Len(render_data.val.panels)
        /\ \A p \in 1..Len(scales.val.panels) :
            IsEmptyPanel(p) =>
                /\ scales.val.panels[p].x.domain = <<R(0), R(1)>>
                /\ scales.val.panels[p].y.domain = <<R(0), R(1)>>

\* What does hold: build_scales succeeds; when every panel is empty, an
\* axis shared between the panels gets the padded [-0.05, 1.05] and an
\* axis computed per panel the inverted [+inf, -inf].
C14_NeverFails ==
    BuildScalesRan =>
        /\ scales.ok
        /\ Len(scales.val.panels) = Len(render_data.val.panels)
        /\ (\A q \in 1..Len(render_data.val.panels) : IsEmptyPanel(q)) =>
            \A p \in 1..Len(scales.val.panels) :
                /\ scales.val.panels[p].x.domain =
                       IF ScalesMode \in {"Fixed", "FreeY"} THEN <<Rat(-1, 20), Rat(21, 20)>>
                       ELSE <<INFINITY, NEG_INFINITY>>
                /\ scales.val.panels[p].y.domain =
                       IF ScalesMode \in {"Fixed", "FreeX"} THEN <<Rat(-1, 20), Rat(21, 20)>>
                       ELSE <<INFINITY, NEG_INFINITY>>

\* Two panels without layers under the Free policy: build_scales succeeds
\* with the domain [+inf, -inf] on both axes.
C14_Witness ==
    /\ BuildScalesRan /\ scales.ok
    /\ plot_spec.layers = <<>> /\ ScalesMode = "Free"
    /\ Len(scales.val.panels) = 2
    /\ scales.val.panels[2].x.domain = <<INFINITY, NEG_INFINITY>>
    /\ scales.val.panels[2].y.domain = <<INFINITY, NEG_INFINITY>>

\* The whole pipeline has run and produced a scene
Compiled == pc = "compiled" /\ resolved.ok /\ render_data.ok /\ scales.ok /\ scene.ok
\* What identifies a command: its kind, its group (line and point
\* commands) and the y values it draws, in order
CmdSig(c) ==
    IF c.cmd = "DrawRect" THEN <<c.cmd, <<>>, <<c.tl[2]>>>>
    ELSE <<c.cmd, Unwrap(c.legend), [i \in 1..Len(c.points) |-> c.points[i][2]]>>
\* The group keys of layer l in panel p, from the table: the distinct cells
\* of the grouping column in the panel's rows, sorted; "default" without one
ExpectedKeys(p, l) ==
    LET gc == group_col_of(resolved.val.layers[l].aesthetics)
    IN  IF IsNone(gc) THEN <<<<100, 101, 102, 97, 117, 108, 116>>>>
        ELSE LET rows == PanelRowsOf(render_data.val, csv, p)
             IN  SortedSeq({rows[i][HeaderPosition(csv.headers, Unwrap(gc))] : i \in 1..Len(rows)})
\* The signatures expected of one group of rows
ExpectedGroupSigs(kind, key, ys) ==
    IF kind = "Bar" THEN [i \in 1..Len(ys) |-> <<"DrawRect", <<>>, <<ys[i]>>>>]
    ELSE <<<<IF kind = "Line" THEN "DrawLine" ELSE "DrawPoint", key, ys>>>>
\* The signatures expected of panel p: layer by layer, within a layer
\* group by group in sorted key order, within a group row by row
ExpectedSigs(p) ==
    Flatten([l \in 1..Len(plot_spec.layers) |->
        Flatten([k \in 1..Len(ExpectedKeys(p, l)) |->
            ExpectedGroupSigs(plot_spec.layers[l].kind, ExpectedKeys(p, l)[k],
                YValuesOf(GroupRowsOf(render_data.val, csv, p, l, ExpectedKeys(p, l)[k]), l))])])

\* C15: the commands of a panel are ordered by layer index, then by group
\* in sorted key order, then by data point in input row order.
C15_CommandOrder ==
    Compiled =>
        \A p \in 1..Len(scene.val.panels) :
            [i \in 1..Len(scene.val.panels[p].commands) |-> CmdSig(scene.val.panels[p].commands[i])]
                = ExpectedSigs(p)

\* Bars then a line, grouped by colour, the rows in the order q, p, q: the
\* rect of p, the two rects of q in row order, the line of p, the line of q.
C15_Witness ==
    /\ Compiled
    /\ csv.rows = <<<<s1, s5, sq>>, <<s1, s2, sp>>, <<s1, s1, sq>>>>
    /\ Len(plot_spec.layers) = 2 /\ plot_spec.layers[1].kind = "Bar"
    /\ IsNone(plot_spec.facet) /\ IsSome(Unwrap(plot_spec.aesthetics).color)
    /\ [i \in 1..Len(scene.val.panels[1].commands) |-> CmdSig(scene.val.panels[1].commands[i])]
         = << <<"DrawRect", <<>>, <<R(2)>>>>, <<"DrawRect", <<>>, <<R(5)>>>>,
              <<"DrawRect", <<>>, <<R(1)>>>>,
              <<"DrawLine", sp, <<R(2)>>>>, <<"DrawLine", sq, <<R(5), R(1)>>>> >>

\* The <<layer, group>> index pairs of panel p, in layer then group order
GroupCells(p) ==
    Flatten([l \in 1..Len(render_data.val.panels[p].layers) |->
                [g \in 1..Len(render_data.val.panels[p].layers[l].groups) |-> <<l, g>>]])
GroupAt(p, cell) == render_data.val.panels[p].layers[cell[1]].groups[cell[2]]
\* The number of commands a group is to emit: one, or for bars one per point
SegLen(group) == IF group.style.kind = "Bar" THEN Len(group.y) ELSE 1
\* The number of commands due to the first j groups of panel p
RECURSIVE SegEnd(_, _)
SegEnd(p, j) == IF j = 0 THEN 0 ELSE SegEnd(p, j - 1) + SegLen(GroupAt(p, GroupCells(p)[j]))
\* The commands of panel p due to its j-th group
GroupSegment(p, j) ==
    SubSeq(scene.val.panels[p].commands, SegEnd(p, j - 1) + 1, SegEnd(p, j))

\* C16: the commands of a panel are, group by group, one DrawLine or
\* DrawPoint holding all points of a line or point group, and one DrawRect
\* per point of a bar group; exactly one command of each group carries a
\* legend label, the group key, and for bars it is the first rectangle.
C16_OneLabelPerGroup ==
    Compiled =>
        \A p \in 1..Len(scene.val.panels) :
            /\ Len(scene.val.panels[p].commands) = SegEnd(p, Len(GroupCells(p)))
            /\ \A j \in 1..Len(GroupCells(p)) :
                LET group == GroupAt(p, GroupCells(p)[j])
                    seg == GroupSegment(p, j)
                IN  /\ Cardinality({i \in 1..Len(seg) : IsSome(seg[i].legend)}) = 1
                    /\ \A i \in 1..Len(seg) :
                           IsSome(seg[i].legend) => Unwrap(seg[i].legend) = group.key
                    /\ group.style.kind \in {"Line", "Point"} =>
                        /\ Len(seg) = 1
                        /\ seg[1].cmd = (IF group.style.kind = "Line" THEN "DrawLine" ELSE "DrawPoint")
                        /\ Len(seg[1].points) = Len(group.x) /\ Len(group.x) = Len(group.y)
                        /\ \A i \in 1..Len(group.x) : seg[1].points[i] = <<group.x[i], group.y[i]>>
                    /\ group.style.kind = "Bar" =>
                        /\ Len(seg) = Len(group.y)
                        /\ \A i \in 1..Len(seg) :
                            /\ seg[i].cmd = "DrawRect"
                            /\ IsSome(seg[i].legend) <=> i = 1

\* A bar group q of two rows after a bar group p of one row, followed by a
\* line layer: the three rectangles carry the labels p, q and none.
C16_Witness ==
    /\ Compiled
    /\ csv.rows = <<<<s1, s5, sq>>, <<s1, s2, sp>>, <<s1, s1, sq>>>>
    /\ Len(plot_spec.layers) = 2 /\ plot_spec.layers[1].kind = "Bar"
    /\ IsNone(plot_spec.facet) /\ IsSome(Unwrap(plot_spec.aesthetics).color)
    /\ Len(scene.val.panels[1].commands) = 5
    /\ [i \in 1..5 |-> scene.val.panels[1].commands[i].legend]
         = <<Some(sp), Some(sq), None, Some(sp), Some(sq)>>
    /\ Len(scene.val.panels[1].commands[5].points) = 2

\* The number of facet partitions of the input table: the distinct cells of
\* the facet column, one partition without a facet
FacetPartitionCount ==
    IF IsSome(plot_spec.facet)
    THEN Cardinality({csv.rows[i][HeaderPosition(csv.headers, Unwrap(plot_spec.facet).by)] :
                         i \in 1..Len(csv.rows)})
    ELSE 1

\* C17: after a successful run of the four stages there are as many
\* PanelData, PanelScales and PanelScene as facet partitions (one without a
\* facet); every PanelData has one layer per layer of the ResolvedSpec, in
\* the order of the plot spec's layers; in every group x, y and y_start
\* have the same length.
C17_PipelineShape ==
    Compiled =>
        /\ Len(render_data.val.panels) = FacetPartitionCount
        /\ Len(scales.val.panels) = FacetPartitionCount
        /\ Len(scene.val.panels) = FacetPartitionCount
        /\ Len(resolved.val.layers) = Len(plot_spec.layers)
        /\ \A p \in 1..Len(render_data.val.panels) :
            /\ Len(render_data.val.panels[p].layers) = Len(resolved.val.layers)
            /\ \A l \in 1..Len(render_data.val.panels[p].layers) :
                /\ resolved.val.layers[l].original_layer = plot_spec.layers[l]
                /\ \A g \in 1..Len(render_data.val.panels[p].layers[l].groups) :
                    LET group == render_data.val.panels[p].layers[l].groups[g]
                    IN  /\ group.style.kind = plot_spec.layers[l].kind
                        /\ Len(group.x) = Len(group.y)
                        /\ Len(group.y) = Len(group.y_start)

\* Two facet partitions of a points-then-bars plot: two panels in each of
\* the three outputs, each PanelData with a point layer then a bar layer,
\* the second panel's groups holding two rows.
C17_Witness ==
    /\ Compiled
    /\ IsSome(plot_spec.facet) /\ FacetPartitionCount = 2
    /\ Len(plot_spec.layers) = 2 /\ plot_spec.layers[1].kind = "Point"
    /\ Len(render_data.val.panels) = 2 /\ Len(scales.val.panels) = 2 /\ Len(scene.val.panels) = 2
    /\ Len(render_data.val.panels[2].layers) = 2
    /\ render_data.val.panels[2].layers[1].groups[1].style.kind = "Point"
    /\ render_data.val.panels[2].layers[2].groups[1].style.kind = "Bar"
    /\ Len(render_data.val.panels[2].layers[2].groups[1].y_start) = 2

\* resolve has run and succeeded
ResolveOk == pc # "start" /\ resolved.ok
Channels == {"color", "size", "shape", "alpha"}
\* The column a layer's channel value maps, if it maps one
MappedOf(value) ==
    IF IsSome(value) /\ Unwrap(value).tag = "Mapped" THEN Some(Unwrap(value).col) ELSE None

\* C18 as stated: a channel for which the layer gives a fixed literal has
\* no resolved column on that layer, whatever the global block maps.
C18_FixedHasNoColumn ==
    ResolveOk =>
        \A l \in 1..Len(plot_spec.layers) : \A ch \in Channels :
            IsSome(FixedOf(plot_spec.layers[l][ch])) =>
                IsNone(resolved.val.layers[l].aesthetics[ch])

\* What does hold: the resolved column of a channel is the column the layer
\* maps, and otherwise (the layer giving a fixed literal or nothing) the
\* column the global block maps, if any.
C18_FixedFallsBackToGlobal ==
    ResolveOk =>
        \A l \in 1..Len(plot_spec.layers) : \A ch \in Channels :
            resolved.val.layers[l].aesthetics[ch] =
                IF IsSome(MappedOf(plot_spec.layers[l][ch])) THEN MappedOf(plot_spec.layers[l][ch])
                ELSE Unwrap(plot_spec.aesthetics)[ch]

\* A line layer with the fixed colour "red" under a global colour mapping
\* on g, no other channel given: the colour resolves to g and the rows are
\* grouped by it.
C18_Witness ==
    /\ pc = "transformed" /\ resolved.ok /\ render_data.ok
    /\ plot_spec.layers[1].kind = "Line"
    /\ FixedOf(plot_spec.layers[1].color) = Some("red")
    /\ Unwrap(plot_spec.aesthetics).color = Some(sg)
    /\ \A ch \in Channels \ {"color"} :
          IsNone(plot_spec.layers[1][ch]) /\ IsNone(Unwrap(plot_spec.aesthetics)[ch])
    /\ resolved.val.layers[1].aesthetics.color = Some(sg)
    /\ GroupKeys(render_data.val.panels[1].layers[1]) = <<sp, sq>>

\* C19 as stated: a line or bar layer has no resolved shape column, so a
\* shape mapping is never the grouping column of such a layer.
C19_ShapeOnlyOnPoint ==
    ResolveOk =>
        \A l \in 1..Len(plot_spec.layers) :
            plot_spec.layers[l].kind \in {"Line", "Bar"} =>
                /\ IsNone(resolved.val.layers[l].aesthetics.shape)
                /\ (pc = "transformed" /\ render_data.ok) =>
                      Len(render_data.val.panels[1].layers[l].groups) = 1
                      \/ IsSome(resolved.val.layers[l].aesthetics.color)
                      \/ IsSome(resolved.val.layers[l].aesthetics.size)
                      \/ IsSome(resolved.val.layers[l].aesthetics.alpha)

\* What does hold: the resolved shape column of a line or bar layer is the
\* shape column of the global block, if any.
C19_GlobalShapeOnEveryLayer ==
    ResolveOk =>
        \A l \in 1..Len(plot_spec.layers) :
            plot_spec.layers[l].kind \in {"Line", "Bar"} =>
                resolved.val.layers[l].aesthetics.shape = Unwrap(plot_spec.aesthetics).shape

\* A bar layer under a global shape mapping on g and no other channel: the
\* shape column resolves to g and the rows are grouped by it.
C19_Witness ==
    /\ pc = "transformed" /\ resolved.ok /\ render_data.ok
    /\ plot_spec.layers[1].kind = "Bar"
    /\ Unwrap(plot_spec.aesthetics).shape = Some(sg)
    /\ \A ch \in Channels \ {"shape"} :
          IsNone(plot_spec.layers[1][ch]) /\ IsNone(Unwrap(plot_spec.aesthetics)[ch])
    /\ resolved.val.layers[1].aesthetics.shape = Some(sg)
    /\ group_col_of(resolved.val.layers[1].aesthetics) = Some(sg)
    /\ GroupKeys(render_data.val.panels[1].layers[1]) = <<sp, sq>>

\* The scales of the plot without its facet over the rows of panel p alone
AloneScales(p) ==
    build_scales(apply_transformations([resolved.val EXCEPT !.facet = None],
                                       MkCsv(csv.headers, PanelRowsOf(render_data.val, csv, p))).val,
                 None).val.panels[1]
AllPanelsSameX == \A p \in 1..Len(scales.val.panels) : scales.val.panels[p].x = scales.val.panels[1].x
AllPanelsSameY == \A p \in 1..Len(scales.val.panels) : scales.val.panels[p].y = scales.val.panels[1].y
\* Every panel's x scale, every panel's y scale, is that of its rows alone
EveryXAlone == \A p \in 1..Len(scales.val.panels) : scales.val.panels[p].x = AloneScales(p).x
EveryYAlone == \A p \in 1..Len(scales.val.panels) : scales.val.panels[p].y = AloneScales(p).y
IsPolicyScaled == BuildScalesRan /\ scales.ok /\ IsSome(plot_spec.facet)

\* C20 as stated: under FreeX the y scale is the same for all panels, its
\* domain the padded union of the panels' raw ranges, and each x scale is
\* that of the panel's rows alone; under FreeY the same with x and y
\* exchanged; under Free both scales are those of the panel's rows alone.
C20_PolicyPerAxisUnion ==
    IsPolicyScaled =>
        /\ Len(scales.val.panels) = Len(render_data.val.panels)
        /\ ScalesMode = "FreeX" =>
            /\ AllPanelsSameY /\ IsPaddedRangeOf(scales.val.panels[1].y.domain, RawYEnds)
            /\ EveryXAlone
        /\ ScalesMode = "FreeY" =>
            /\ AllPanelsSameX /\ IsPaddedRangeOf(scales.val.panels[1].x.domain, RawXEnds)
            /\ EveryYAlone
        /\ ScalesMode = "Free" => EveryXAlone /\ EveryYAlone

\* C20 amended: as stated, except that the x scale shared under FreeY is,
\* when some panel is categorical, the categorical scale of the first
\* categorical panel's category list, with the domain [0, n].
C20_PolicyPerAxis ==
    IsPolicyScaled =>
        /\ Len(scales.val.panels) = Len(render_data.val.panels)
        /\ ScalesMode = "FreeX" =>
            /\ AllPanelsSameY /\ IsPaddedRangeOf(scales.val.panels[1].y.domain, RawYEnds)
            /\ EveryXAlone
        /\ ScalesMode = "FreeY" =>
            /\ AllPanelsSameX
            /\ IF AnyPanelCategorical
               THEN /\ scales.val.panels[1].x.domain = <<R(0), R(Len(FirstPanelCategories))>>
                    /\ scales.val.panels[1].x.categories = FirstPanelCategories
               ELSE IsPaddedRangeOf(scales.val.panels[1].x.domain, RawXEnds)
            /\ EveryYAlone
        /\ ScalesMode = "Free" => EveryXAlone /\ EveryYAlone

\* FreeX over the panels N = {(3, 2)} and S = {(1, -4), (1, 2)}: the x
\* domains are [2, 4] and [0, 2], the shared y domain is [-4.3, 2.3].
C20_Witness ==
    /\ IsPolicyScaled /\ ScalesMode = "FreeX"
    /\ csv.rows = <<<<s3, s2, FacetNames[1]>>, <<s1, sNeg4, FacetNames[2]>>, <<s1, s2, FacetNames[2]>>>>
    /\ Len(scales.val.panels) = 2
    /\ scales.val.panels[1].x.domain = <<R(2), R(4)>>
    /\ scales.val.panels[2].x.domain = <<R(0), R(2)>>
    /\ scales.val.panels[1].y.domain = <<Rat(-43, 10), Rat(23, 10)>>
    /\ scales.val.panels[2].y.domain = <<Rat(-43, 10), Rat(23, 10)>>

\* transform has run and succeeded
Transformed == TransformRan /\ render_data.ok
\* The size that linear interpolation gives position i (0-based) of n keys
InterpolatedSize(i, n) ==
    IF n = 1 THEN Rat(min_size + max_size, 2)
    ELSE Rat(min_size * (n - 1) + (max_size - min_size) * i, n - 1)
\* The size of a style: a point's size, the width of a line or bar
StyleSize(style) == IF style.kind = "Point" THEN style.size ELSE style.width

\* C21: the key at position i (0-based) of the sorted key list receives
\* colour i mod 10 and shape i mod 6 of the fixed lists; with n >= 2 keys
\* it receives the size min + (max - min) * i / (n - 1), a single key the
\* midpoint; an empty key list receives an empty assignment.  Checked of
\* the three assignment functions on the layer's keys and of the styles
\* the groups carry.
C21_PaletteAssignment ==
    /\ DOMAIN assign_colors(<<>>) = {} /\ DOMAIN assign_shapes(<<>>) = {}
    /\ DOMAIN assign_sizes(<<>>) = {}
    /\ Transformed =>
        \A l \in 1..Len(render_data.val.panels[1].layers) :
            LET groups == render_data.val.panels[1].layers[l].groups
                keys == GroupKeys(render_data.val.panels[1].layers[l])
                aes == resolved.val.layers[l].aesthetics
                n == Len(groups)
            IN  /\ DOMAIN assign_colors(keys) = Range(keys)
                /\ DOMAIN assign_shapes(keys) = Range(keys)
                /\ DOMAIN assign_sizes(keys) = Range(keys)
                /\ \A g \in 1..n :
                    /\ assign_colors(keys)[keys[g]] = category10[((g - 1) % 10) + 1]
                    /\ assign_shapes(keys)[keys[g]] = default_shapes[((g - 1) % 6) + 1]
                    /\ assign_sizes(keys)[keys[g]] = InterpolatedSize(g - 1, n)
                    /\ IsSome(aes.color) =>
                          groups[g].style.color = Some(category10[((g - 1) % 10) + 1])
                    /\ (IsSome(aes.shape) /\ groups[g].style.kind = "Point") =>
                          groups[g].style.shape = Some(default_shapes[((g - 1) % 6) + 1])
                    /\ IsSome(aes.size) =>
                          StyleSize(groups[g].style) = Some(InterpolatedSize(g - 1, n))

\* Twelve groups of a point layer with colour, size and shape mapped, the
\* rows in descending key order: the eleventh key "k" wraps around to the
\* first colour and the fifth shape, the twelfth gets the maximum size.
C21_Witness ==
    /\ Transformed
    /\ plot_spec.layers[1].kind = "Point"
    /\ csv.rows[1][3] = PaletteKey(12)
    /\ Len(render_data.val.panels[1].layers[1].groups) = 12
    /\ render_data.val.panels[1].layers[1].groups[11].key = PaletteKey(11)
    /\ render_data.val.panels[1].layers[1].groups[11].style.color = Some("blue")
    /\ render_data.val.panels[1].layers[1].groups[11].style.shape = Some("cross")
    /\ render_data.val.panels[1].layers[1].groups[11].style.size = Some(Rat(153, 11))
    /\ render_data.val.panels[1].layers[1].groups[1].style.size = Some(R(3))
    /\ render_data.val.panels[1].layers[1].groups[12].style.size = Some(R(15))

\* A string with its ASCII capitals replaced by small letters
LowerCase(str) == [i \in 1..Len(str) |-> IF str[i] \in 65..90 THEN str[i] + 32 ELSE str[i]]
\* The columns whose header is the name up to ASCII case
MatchingColumns(name) == {j \in 1..Len(csv.headers) : LowerCase(csv.headers[j]) = LowerCase(name)}
\* The leftmost of them
LeftmostMatch(name) == CHOOSE j \in MatchingColumns(name) : \A o \in MatchingColumns(name) : j <= o
\* The column names the transformer looks up for the single layer of the
\* plot: facet, x, y and the grouping column
NeededNames ==
    {resolved.val.layers[1].aesthetics.x_col, resolved.val.layers[1].aesthetics.y_col}
    \cup Range(group_col_of(resolved.val.layers[1].aesthetics))
    \cup FacetColumns
\* <<panel title, group key, x, y>> of every point of the render data
PointTuples ==
    UNION {UNION {{<<render_data.val.facet_layout.panel_titles[p],
                     render_data.val.panels[p].layers[1].groups[g].key,
                     render_data.val.panels[p].layers[1].groups[g].x[i],
                     render_data.val.panels[p].layers[1].groups[g].y[i]>> :
                        i \in 1..Len(render_data.val.panels[p].layers[1].groups[g].x)} :
                    g \in 1..Len(render_data.val.panels[p].layers[1].groups)} :
              p \in 1..Len(render_data.val.panels)}
\* The same tuples read off the table through the leftmost matching columns
ExpectedPointTuples ==
    LET aes == resolved.val.layers[1].aesthetics
    IN  {<<IF IsSome(plot_spec.facet)
           THEN csv.rows[r][LeftmostMatch(Unwrap(plot_spec.facet).by)] ELSE <<>>,
           IF IsSome(group_col_of(aes))
           THEN csv.rows[r][LeftmostMatch(Unwrap(group_col_of(aes)))]
           ELSE <<100, 101, 102, 97, 117, 108, 116>>,
           ParseF64(csv.rows[r][LeftmostMatch(aes.x_col)]).val,
           ParseF64(csv.rows[r][LeftmostMatch(aes.y_col)]).val>> : r \in 1..Len(csv.rows)}

\* C22: a column name matches a header up to ASCII case, and of several
\* matching headers the leftmost is used: transform fails exactly when one
\* of the names it needs matches no header, otherwise its points are the
\* rows read through the leftmost matching facet, grouping, x and y
\* columns; extract_column by name fails or returns the leftmost matching
\* header and that column's values likewise.
C22_CaseInsensitiveLeftmost ==
    TransformRan =>
        /\ render_data.ok <=> \A name \in NeededNames : MatchingColumns(name) # {}
        /\ render_data.ok => PointTuples = ExpectedPointTuples
        /\ \A name \in {sx, sX, sy, sY, sg, sG} :
            LET got == extract_column(csv, SelectName(name))
            IN  /\ got.ok <=> MatchingColumns(name) # {}
                /\ got.ok =>
                    /\ got.val[1] = csv.headers[LeftmostMatch(name)]
                    /\ got.val[2] = [r \in 1..Len(csv.rows) |->
                                        ParseF64(csv.rows[r][LeftmostMatch(name)]).val]

\* Headers "X", "x", "Y" and the names x, y: x is read from the first
\* column although the second header is the exact name, y from the third.
C22_Witness ==
    /\ Transformed
    /\ csv.headers = <<sX, sx, sY>>
    /\ Unwrap(plot_spec.aesthetics).x = sx /\ Unwrap(plot_spec.aesthetics).y = sy
    /\ IsNone(Unwrap(plot_spec.aesthetics).color) /\ IsNone(plot_spec.facet)
    /\ render_data.val.panels[1].layers[1].groups[1].x = <<R(1), R(4)>>
    /\ render_data.val.panels[1].layers[1].groups[1].y = <<R(3), R(6)>>
    /\ extract_column(csv, SelectName(sx)) = Ok(<<sX, <<R(1), R(4)>>>>)

\* build_scales has run and succeeded
Scaled == BuildScalesRan /\ scales.ok
\* The <<layer, group, point>> positions of panel p
PanelPoints(p) ==
    {lgi \in (1..Len(render_data.val.panels[p].layers)) \X (1..MaxRows + 1) \X (1..MaxRows + 1) :
        /\ lgi[2] <= Len(render_data.val.panels[p].layers[lgi[1]].groups)
        /\ lgi[3] <= Len(render_data.val.panels[p].layers[lgi[1]].groups[lgi[2]].x)}
\* The x coordinate of a point, and the raw x cell of the row it came from
PointX(p, lgi) == render_data.val.panels[p].layers[lgi[1]].groups[lgi[2]].x[lgi[3]]
PointRawX(p, lgi) ==
    GroupRowsOf(render_data.val, csv, p, lgi[1],
                render_data.val.panels[p].layers[lgi[1]].groups[lgi[2]].key)[lgi[3]][XColOf(csv, lgi[1])]
\* The x coordinate is an index into the category list of the panel's x
\* scale, and the label there is the raw x cell
LabelledByScale(p, lgi) ==
    /\ PointX(p, lgi).d = 1
    /\ PointX(p, lgi).n >= 0 /\ PointX(p, lgi).n < Len(scales.val.panels[p].x.categories)
    /\ scales.val.panels[p].x.categories[PointX(p, lgi).n + 1] = PointRawX(p, lgi)

\* C23 as stated: in every panel whose x scale is categorical, the x
\* coordinate of every point of every layer is an index into the scale's
\* category list, and the category at that index is the raw x cell of the
\* point's row.
C23_CategoryLabels ==
    Scaled =>
        \A p \in 1..Len(scales.val.panels) :
            scales.val.panels[p].x.is_categorical =>
                \A lgi \in PanelPoints(p) : LabelledByScale(p, lgi)

\* Every layer of panel p is categorical
AllLayersCategorical(p) ==
    \A l \in 1..Len(render_data.val.panels[p].layers) :
        \A g \in 1..Len(render_data.val.panels[p].layers[l].groups) :
            IsSome(render_data.val.panels[p].layers[l].groups[g].x_categories)
\* The x scale of a panel is computed from that panel alone
XScalePerPanel == ScalesMode \in {"FreeX", "Free"} \/ Len(scales.val.panels) = 1

\* What does hold: the labels are right in a panel all of whose layers are
\* categorical when the x scale is computed per panel.
C23_CategoryLabelsPerPanel ==
    Scaled =>
        \A p \in 1..Len(scales.val.panels) :
            (scales.val.panels[p].x.is_categorical /\ AllLayersCategorical(p) /\ XScalePerPanel) =>
                \A lgi \in PanelPoints(p) : LabelledByScale(p, lgi)

\* Bars faceted with shared scales over the rows (A, 1, N), (B, 1, S): the
\* bar of panel S sits at index 0, where the shared scale has the label A.
C23_Witness ==
    /\ Scaled /\ IsSome(plot_spec.facet) /\ ScalesMode = "Fixed"
    /\ Len(plot_spec.layers) = 1 /\ plot_spec.layers[1].kind = "Bar"
    /\ csv.rows = <<<<sA, s1, FacetNames[1]>>, <<sB, s1, FacetNames[2]>>>>
    /\ render_data.val.panels[2].layers[1].groups[1].x = <<R(0)>>
    /\ scales.val.panels[2].x.is_categorical
    /\ scales.val.panels[2].x.categories = <<sA>>

\* The first present among the resolved colour, size, shape and alpha
\* columns of layer l, if any
FirstResolvedChannel(l) ==
    LET aes == resolved.val.layers[l].aesthetics
    IN  IF IsSome(aes.color) THEN aes.color
        ELSE IF IsSome(aes.size) THEN aes.size
        ELSE IF IsSome(aes.shape) THEN aes.shape
        ELSE aes.alpha
\* The cell of a row in the named column
CellOf(row, name) == row[HeaderPosition(csv.headers, name)]
\* The rows of panel p that layer l puts into the group of the given key
RowsOfKey(p, l, key) ==
    IF IsNone(FirstResolvedChannel(l)) THEN PanelRowsOf(render_data.val, csv, p)
    ELSE SelectSeq(PanelRowsOf(render_data.val, csv, p),
                   LAMBDA row : CellOf(row, Unwrap(FirstResolvedChannel(l))) = key)

\* C24: a layer's rows are grouped by the first resolved column among
\* colour, size, shape, alpha: one group per distinct cell of that column,
\* the groups in ascending key order, each holding its rows in input
\* order; without such a column all rows of the panel form the one group
\* "default".
C24_GroupingColumn ==
    Transformed =>
        \A p \in 1..Len(render_data.val.panels) :
            \A l \in 1..Len(render_data.val.panels[p].layers) :
                LET groups == render_data.val.panels[p].layers[l].groups
                    rows == PanelRowsOf(render_data.val, csv, p)
                IN  /\ {groups[g].key : g \in 1..Len(groups)} =
                           IF IsNone(FirstResolvedChannel(l))
                           THEN {<<100, 101, 102, 97, 117, 108, 116>>}
                           ELSE {CellOf(rows[r], Unwrap(FirstResolvedChannel(l))) : r \in 1..Len(rows)}
                    /\ \A g \in 1..Len(groups) : \A h \in (g + 1)..Len(groups) :
                           StrLt(groups[g].key, groups[h].key)
                    /\ \A g \in 1..Len(groups) :
                           /\ Len(groups[g].y) = Len(groups[g].x)
                           /\ groups[g].y = YValuesOf(RowsOfKey(p, l, groups[g].key), l)

\* Size mapped to h, shape to f and alpha to k, no colour, over the rows
\* with h cells v, u, u: the groups are u (rows two and three) and v.
C24_Witness ==
    /\ Transformed
    /\ IsNone(resolved.val.layers[1].aesthetics.color)
    /\ resolved.val.layers[1].aesthetics.size = Some(sh)
    /\ resolved.val.layers[1].aesthetics.shape = Some(sf)
    /\ resolved.val.layers[1].aesthetics.alpha = Some(sk)
    /\ csv.rows = <<<<s1, s3, sq, sv, FacetNames[2], sr>>, <<s1, s1, sq, su, FacetNames[1], sr>>,
                    <<s1, s2, sp, su, FacetNames[2], sr>>>>
    /\ GroupKeys(render_data.val.panels[1].layers[1]) = <<su, sv>>
    /\ render_data.val.panels[1].layers[1].groups[1].y = <<R(1), R(2)>>
    /\ render_data.val.panels[1].layers[1].groups[2].y = <<R(3)>>

\* Some x cell that layer l reads in the rows of panel p is not a number
HasNonNumericX(p, l) ==
    \E r \in 1..Len(PanelRowsOf(render_data.val, csv, p)) :
        ~ParseF64(PanelRowsOf(render_data.val, csv, p)[r][XColOf(csv, l)]).ok

\* C25: a layer's x axis in a panel is categorical, every group carrying
\* the category list, exactly when the layer is a bar layer or some x cell
\* of the panel's rows is not a number; otherwise no group carries a
\* category list and every x coordinate is the parsed cell.
C25_AxisTyping ==
    Transformed =>
        \A p \in 1..Len(render_data.val.panels) :
            \A l \in 1..Len(render_data.val.panels[p].layers) :
                \A g \in 1..Len(render_data.val.panels[p].layers[l].groups) :
                    LET group == render_data.val.panels[p].layers[l].groups[g]
                        grows == GroupRowsOf(render_data.val, csv, p, l, group.key)
                    IN  IF plot_spec.layers[l].kind = "Bar" \/ HasNonNumericX(p, l)
                        THEN /\ IsSome(group.x_categories)
                             /\ group.x_categories =
                                    render_data.val.panels[p].layers[l].groups[1].x_categories
                             /\ Range(Unwrap(group.x_categories)) =
                                    {PanelRowsOf(render_data.val, csv, p)[r][XColOf(csv, l)] :
                                        r \in 1..Len(PanelRowsOf(render_data.val, csv, p))}
                        ELSE /\ IsNone(group.x_categories)
                             /\ group.x = [i \in 1..Len(grows) |->
                                              ParseF64(grows[i][XColOf(csv, l)]).val]

\* A line layer grouped by colour whose group p reads only the numbers
\* "10" and "2" while group q reads "A": both groups are categorical over
\* the list 10, 2, A.
C25_Witness ==
    /\ Transformed
    /\ plot_spec.layers[1].kind = "Line" /\ IsNone(plot_spec.facet)
    /\ csv.rows = <<<<s10, s1, sp>>, <<sA, s1, sq>>, <<s2, s1, sp>>>>
    /\ Len(render_data.val.panels[1].layers[1].groups) = 2
    /\ render_data.val.panels[1].layers[1].groups[1].x_categories = Some(<<s10, s2, sA>>)
    /\ render_data.val.panels[1].layers[1].groups[1].x = <<R(0), R(1)>>
    /\ render_data.val.panels[1].layers[1].groups[2].x = <<R(2)>>

\* The number of points of layer l in panel p
LayerPointCountIn(p, l) ==
    SumLen([g \in 1..Len(render_data.val.panels[p].layers[l].groups) |->
               render_data.val.panels[p].layers[l].groups[g].y])

\* C26: in a layer that is not a stacked bar layer, every row of the panel
\* is one point of the group of its key, with y_start 0 and y the parsed
\* y cell, rows of one category included; a plot of one bar layer with the
\* Identity position draws one rectangle per row of the panel.
C26_UnstackedRows ==
    /\ Transformed =>
        \A p \in 1..Len(render_data.val.panels) :
            \A l \in 1..Len(render_data.val.panels[p].layers) :
                ~IsStackLayer(l) =>
                    /\ LayerPointCountIn(p, l) = Len(PanelRowsOf(render_data.val, csv, p))
                    /\ \A g \in 1..Len(render_data.val.panels[p].layers[l].groups) :
                        LET group == render_data.val.panels[p].layers[l].groups[g]
                            grows == GroupRowsOf(render_data.val, csv, p, l, group.key)
                        IN  /\ group.y = YValuesOf(grows, l)
                            /\ group.y_start = [i \in 1..Len(grows) |-> R(0)]
                            /\ Len(group.x) = Len(grows)
    /\ (Compiled /\ Len(plot_spec.layers) = 1 /\ plot_spec.layers[1].kind = "Bar"
            /\ plot_spec.layers[1].position = "Identity") =>
        \A p \in 1..Len(scene.val.panels) :
            /\ Len(scene.val.panels[p].commands) = Len(PanelRowsOf(render_data.val, csv, p))
            /\ \A i \in 1..Len(scene.val.panels[p].commands) :
                /\ scene.val.panels[p].commands[i].cmd = "DrawRect"
                /\ scene.val.panels[p].commands[i].br[2] = R(0)

\* Identity bars over three rows of category "A" with y 2, -3, 2: three
\* rectangles at the same index from 0 to 2, -3 and 2.
C26_Witness ==
    /\ Compiled
    /\ Len(plot_spec.layers) = 1 /\ plot_spec.layers[1].kind = "Bar"
    /\ plot_spec.layers[1].position = "Identity"
    /\ IsNone(plot_spec.facet) /\ IsNone(Unwrap(plot_spec.aesthetics).color)
    /\ csv.rows = <<<<sA, s2, sp>>, <<sA, sNeg3, sq>>, <<sA, s2, sq>>>>
    /\ render_data.val.panels[1].layers[1].groups[1].x = <<R(0), R(0), R(0)>>
    /\ render_data.val.panels[1].layers[1].groups[1].y = <<R(2), R(-3), R(2)>>
    /\ Len(scene.val.panels[1].commands) = 3
    /\ scene.val.panels[1].commands[2].tl[2] = R(-3)

\* Layer l of panel p as the transform of the panel's rows alone by a plot
\* of that one layer
LayerAlone(p, l) ==
    apply_transformations([layers |-> <<resolved.val.layers[l]>>, facet |-> None],
                          MkCsv(csv.headers, PanelRowsOf(render_data.val, csv, p))).val.panels[1].layers[1]
\* Every row of a stacked category ends at its start plus its own y value
TopIsStartPlusValue(p, l) ==
    \A g \in 1..Len(render_data.val.panels[p].layers[l].groups) :
        LET group == render_data.val.panels[p].layers[l].groups[g]
            ys == YValuesOf(GroupRowsOf(render_data.val, csv, p, l, group.key), l)
        IN  /\ Len(group.y) = Len(ys)
            /\ \A i \in 1..Len(ys) : group.y[i] = RAdd(group.y_start[i], ys[i])
\* The rectangles of two points, from y_start to y, share more than an edge
RectsOverlap(p, l, a, b) ==
    LET lo(pt) == IF RLe(YStartAt(render_data.val, p, l, pt), YAt(render_data.val, p, l, pt))
                  THEN YStartAt(render_data.val, p, l, pt) ELSE YAt(render_data.val, p, l, pt)
        hi(pt) == IF RLe(YStartAt(render_data.val, p, l, pt), YAt(render_data.val, p, l, pt))
                  THEN YAt(render_data.val, p, l, pt) ELSE YStartAt(render_data.val, p, l, pt)
    IN  RLt(lo(a), hi(b)) /\ RLt(lo(b), hi(a))
NoOverlapIn(p, l, pts) == \A a, b \in pts : a # b => ~RectsOverlap(p, l, a, b)
\* The y values of the rows of a category all have the same sign
SameSignIn(p, l, pts) ==
    \/ \A a \in pts : RLe(YStartAt(render_data.val, p, l, a), YAt(render_data.val, p, l, a))
    \/ \A a \in pts : RLe(YAt(render_data.val, p, l, a), YStartAt(render_data.val, p, l, a))

\* C27 as stated: in a stacked bar layer the first row of a category
\* starts at 0 and every later row at the top of the row processed before
\* it, so that the rectangles of a category neither leave a gap nor
\* overlap; a layer's values in a panel do not depend on the other layers
\* and panels.
C27_StackContiguousNoOverlap ==
    Transformed =>
        \A cell \in StackCells :
            /\ YStartIsPreviousTop(cell[1], cell[2], PointsOf(cell))
            /\ TopIsStartPlusValue(cell[1], cell[2])
            /\ NoOverlapIn(cell[1], cell[2], PointsOf(cell))
            /\ render_data.val.panels[cell[1]].layers[cell[2]] = LayerAlone(cell[1], cell[2])

\* C27 amended: the same chain of starts and tops, per layer and panel;
\* the rectangles of a category do not overlap when its y values all have
\* the same sign.
C27_StackContiguous ==
    Transformed =>
        \A cell \in StackCells :
            /\ YStartIsPreviousTop(cell[1], cell[2], PointsOf(cell))
            /\ TopIsStartPlusValue(cell[1], cell[2])
            /\ SameSignIn(cell[1], cell[2], PointsOf(cell)) =>
                   NoOverlapIn(cell[1], cell[2], PointsOf(cell))
            /\ render_data.val.panels[cell[1]].layers[cell[2]] = LayerAlone(cell[1], cell[2])

\* Two stacked bar layers over three rows of category "A" with y 2, 2, -3:
\* both layers start at 0, 2, 4 and end at 2, 4, 1.
C27_Witness ==
    /\ Transformed
    /\ Len(plot_spec.layers) = 2 /\ IsStackLayer(1) /\ IsStackLayer(2)
    /\ IsNone(plot_spec.facet) /\ IsNone(Unwrap(plot_spec.aesthetics).color)
    /\ csv.rows = <<<<sA, s2, sp>>, <<sA, s2, sq>>, <<sA, sNeg3, sq>>>>
    /\ render_data.val.panels[1].layers[1].groups[1].y_start = <<R(0), R(2), R(4)>>
    /\ render_data.val.panels[1].layers[2].groups[1].y_start = <<R(0), R(2), R(4)>>
    /\ render_data.val.panels[1].layers[2].groups[1].y = <<R(2), R(4), R(1)>>

\* Some group of panel p has a bar style
HasBars(p) ==
    \E l \in 1..Len(render_data.val.panels[p].layers) :
        \E g \in 1..Len(render_data.val.panels[p].layers[l].groups) :
            render_data.val.panels[p].layers[l].groups[g].style.kind = "Bar"

\* C28: the y domain of a panel that holds a group with a bar style
\* contains 0, under every sharing policy and whatever the signs of the
\* bars' values.
C28_BarsShowBaseline ==
    Scaled =>
        \A p \in 1..Len(scales.val.panels) :
            HasBars(p) =>
                /\ RLe(scales.val.panels[p].y.domain[1], R(0))
                /\ RLe(R(0), scales.val.panels[p].y.domain[2])

\* Bars faceted with a free y axis, panel N holding the one value -3 and
\* panel S the values 2 and 5: the y domains are [-3.15, 0.15] and
\* [-0.25, 5.25].
C28_Witness ==
    /\ Scaled /\ IsSome(plot_spec.facet) /\ ScalesMode = "FreeY"
    /\ plot_spec.layers = <<BarAt("Identity")>>
    /\ csv.rows = <<<<sA, s2, FacetNames[2]>>, <<sA, sNeg3, FacetNames[1]>>, <<sA, s5, FacetNames[2]>>>>
    /\ HasBars(1) /\ HasBars(2)
    /\ scales.val.panels[1].y.domain = <<Rat(-315, 100), Rat(15, 100)>>
    /\ scales.val.panels[2].y.domain = <<Rat(-25, 100), Rat(525, 100)>>

\* The explicit column count of the plot's facet, if any
ExplicitNcol == IF IsSome(plot_spec.facet) THEN Unwrap(plot_spec.facet).ncol ELSE None

\* C29: with at least one panel and an explicit column count, if given, of
\* at least 1, panel i (counted from 0) is placed at row i div ncol and
\* column i mod ncol, inside the nrow x ncol grid of the facet layout, and
\* no two panels share a cell.
C29_GridPlacement ==
    (/\ Compiled
     /\ Len(scene.val.panels) >= 1
     /\ IsSome(ExplicitNcol) => Unwrap(ExplicitNcol) >= 1) =>
        LET panels == scene.val.panels
            nrow == render_data.val.facet_layout.nrow
            ncol == render_data.val.facet_layout.ncol
        IN  /\ Len(panels) = Len(render_data.val.panels)
            /\ \A p \in 1..Len(panels) :
                /\ panels[p].row = (p - 1) \div ncol
                /\ panels[p].col = (p - 1) % ncol
                /\ panels[p].row < nrow
                /\ panels[p].col < ncol
            /\ \A p, q \in 1..Len(panels) :
                (panels[p].row = panels[q].row /\ panels[p].col = panels[q].col) => p = q

\* Five panels in 2 columns: 3 rows, the fifth panel alone in the last
\* row at (2, 0), the fourth at (1, 1).
C29_Witness ==
    /\ Compiled
    /\ ExplicitNcol = Some(2)
    /\ Len(scene.val.panels) = 5
    /\ render_data.val.facet_layout.nrow = 3
    /\ scene.val.panels[5].row = 2 /\ scene.val.panels[5].col = 0
    /\ scene.val.panels[4].row = 1 /\ scene.val.panels[4].col = 1

\* The rectangle c lies horizontally within the range of x_scale
RectWithin(c, x_scale) ==
    /\ RLe(x_scale.range[1], c.tl[1]) /\ RLe(c.tl[1], x_scale.range[2])
    /\ RLe(x_scale.range[1], c.br[1]) /\ RLe(c.br[1], x_scale.range[2])
\* The rectangles of panel p of the scene whose width ratio is at most 1
NarrowRects(p) ==
    {i \in 1..Len(scene.val.panels[p].commands) :
        /\ scene.val.panels[p].commands[i].cmd = "DrawRect"
        /\ RLe(bar_width_ratio_of(scene.val.panels[p].commands[i].style), R(1))}
\* The range of a categorical x scale is [-0.5, N - 0.5] for its N categories
CategoricalRange(x_scale) ==
    x_scale.range = <<Rat(-1, 2), RSub(R(Len(x_scale.categories)), Rat(1, 2))>>
\* Every categorical layer of panel p has the category list of the panel's
\* x scale
CategoriesAgree(p) ==
    \A l \in 1..Len(render_data.val.panels[p].layers) :
        \A g \in 1..Len(render_data.val.panels[p].layers[l].groups) :
            LET cats == render_data.val.panels[p].layers[l].groups[g].x_categories
            IN  IsSome(cats) => Unwrap(cats) = scene.val.panels[p].x_scale.categories

\* C30: in a panel whose x scale is categorical with N categories, every
\* rectangle with a width ratio of at most 1 lies horizontally within the
\* scale's range [-0.5, N - 0.5], for every bar position, number of layers
\* and sharing policy.
C30_RectsWithinRange ==
    Compiled =>
        \A p \in 1..Len(scene.val.panels) :
            scene.val.panels[p].x_scale.is_categorical =>
                /\ CategoricalRange(scene.val.panels[p].x_scale)
                /\ \A i \in NarrowRects(p) :
                    RectWithin(scene.val.panels[p].commands[i], scene.val.panels[p].x_scale)

\* What does hold: the rectangles lie within the range in every panel
\* whose layers have the category list of the panel's x scale.
C30_RectsWithinOwnCategories ==
    Compiled =>
        \A p \in 1..Len(scene.val.panels) :
            (scene.val.panels[p].x_scale.is_categorical /\ CategoriesAgree(p)) =>
                /\ CategoricalRange(scene.val.panels[p].x_scale)
                /\ \A i \in NarrowRects(p) :
                    RectWithin(scene.val.panels[p].commands[i], scene.val.panels[p].x_scale)

\* Identity bars faceted with shared scales over the rows (A, N), (A, S),
\* (B, S): the shared x scale has the one category A and the range
\* [-0.5, 0.5], and the bar B of panel S spans [0.6, 1.4].
C30_Witness ==
    /\ Compiled /\ IsSome(plot_spec.facet) /\ ScalesMode = "Fixed"
    /\ plot_spec.layers = <<BarAt("Identity")>>
    /\ csv.rows = <<<<sA, s2, sp, FacetNames[1]>>, <<sA, s2, sp, FacetNames[2]>>,
                    <<sB, s2, sq, FacetNames[2]>>>>
    /\ scene.val.panels[2].x_scale.range = <<Rat(-1, 2), Rat(1, 2)>>
    /\ \E i \in NarrowRects(2) :
        /\ scene.val.panels[2].commands[i].tl[1] = Rat(6, 10)
        /\ scene.val.panels[2].commands[i].br[1] = Rat(14, 10)

====
